---------------------------- MODULE Spec2Model ----------------------------
(***************************************************************************)
(* A model of iiko-bot: the session manager (Server, src/src/iiko.rs), the *)
(* shift and OLAP services (iiko.rs, olap.rs, date.rs) and the             *)
(* conversation engine (src/src/tg.rs).                                    *)
(*                                                                         *)
(* Thirteen specifications share the variables of this module:            *)
(*   SessionSpec  one Server object driven by an arbitrary caller, with a  *)
(*                clock that advances between calls;                       *)
(*   ShiftSpec    latest_shift and sum_shifts applied to bounded inputs;   *)
(*   DateSpec     the date bounds of list_shifts_with_offset, the wall     *)
(*                clock advancing between its reads;                       *)
(*   OlapSpec     get_olap's grouping and display_olap applied to bounded  *)
(*                inputs;                                                  *)
(*   WrapSpec     wrap_text applied to bounded texts and widths;           *)
(*   ReportSpec   the report commands of one allowed user in one chat, the *)
(*                remote answering well or not, time passing between the   *)
(*                messages;                                                *)
(*   AdminSpec    the accounts added and deleted by one admin, the file    *)
(*                system answering well or not;                            *)
(*   SwitchSpec   two chats that switch the server and ask for reports in  *)
(*                any order;                                               *)
(*   CacheSpec    two chats that ask for the OLAP report and choose a      *)
(*                category in any order;                                   *)
(*   LockSpec     two chats of an admin whose handlers take and drop the   *)
(*                mutexes step by step, in any interleaving;               *)
(*   FileSpec     two chats of an admin whose handlers read, truncate and  *)
(*                write the file of the accounts step by step;             *)
(*   LabelSpec    two chats, one asking for reports, its handler taking    *)
(*                collect_server_info and the rest as two steps, while the *)
(*                other switches the server;                               *)
(*   Spec         the menus, the access checks, the administration and the *)
(*                switch of servers, for every sender of one chat, the bot *)
(*                API and the file system answering well or not.           *)
(* In the specifications of the bot there is one action per inbound        *)
(* message, the whole of handle_states for that message.                   *)
(***************************************************************************)
EXTENDS Integers, Sequences, FiniteSets, TLC

VARIABLES
    \* ---- one Server (iiko.rs:85-90) and its caller's view
    token,        \* Server.token : NoToken or a NewToken record
    now,          \* the monotonic clock (Instant::now()), in seconds
    issued,       \* how many tokens the remote has issued so far
    lastCall,     \* the last call made on the Server and what it did
    \* ---- the shift service applied to an input
    shifts,       \* a Shifts value (Vec<Shift>), oldest first
    offset,       \* the recency offset handed to latest_shift
    shiftOut,     \* what the last shift operation returned
    utc,          \* the wall clock (Utc::now()), in hours
    dates,        \* the date bounds of a listing, as far as they are read
    \* ---- the OLAP service applied to an input
    olapData,     \* OLAPList.data: the rows of the remote's answer
    olapOut,      \* what the last OLAP operation returned
    wrapIn,       \* the text and the width handed to wrap_text
    wrapOut,      \* what wrap_text returned, once it was called
    \* ---- the bot: src/src/tg.rs
    dialogue,     \* InMemStorage<State>: the dialogue state of each chat
    allowed_list, \* DependenciesForDispatcher.allowed_list
    accounts,     \* the accounts of /etc/iiko-bot/tg_cfg.toml
    servers,      \* ServerState: the map of the servers and the current one
    olap_store,   \* DependenciesForDispatcher.olap_store
    lastMsg,      \* the last message handled and what its handler did
    lastReport,   \* the report command handled last before lastMsg, if any
    fetched,      \* for each chat, what its last OLAP report stored
    tasks,        \* for each chat, the lock and unlock steps that the handler
                  \* of its message has still to take
    owner         \* for each mutex, the chat whose handler holds it, or 0

sessVars == <<token, now, issued, lastCall>>
shiftVars == <<shifts, offset, shiftOut, utc, dates>>
olapVars == <<olapData, olapOut, wrapIn, wrapOut>>
lockVars == <<tasks, owner>>
botVars == <<dialogue, allowed_list, accounts, servers, olap_store, lastMsg,
             lastReport, fetched, tasks, owner>>

vars == <<token, now, issued, lastCall, shifts, offset, shiftOut, utc, dates,
          olapData, olapOut, wrapIn, wrapOut, dialogue, allowed_list, accounts, servers,
          olap_store, lastMsg, lastReport, fetched, tasks, owner>>

-----------------------------------------------------------------------------
(* Bounds of the model. *)

\* The clock stops after MaxTicks advances.
MaxTicks == 6

\* The remote issues at most MaxIssued tokens.
MaxIssued == 2

\* A shift listing holds at most MaxShifts shifts.
MaxShifts == 3

\* f64 keeps 53 significant bits; 2^53 is beyond the integers of the model
\* checker, so the model's floating-point numbers keep MantBits significant
\* bits and round the same way (to nearest, ties to even).
MantBits == 9

-----------------------------------------------------------------------------
(* Session manager: src/src/iiko.rs *)

\* lifetime: Duration::from_secs(3600)
Lifetime == 3600

\* The clock advances in steps of a third of the lifetime, so that an age of
\* exactly Lifetime (the boundary of is_expired's >=) is reached.
ClockStep == Lifetime \div 3

\* Option<NewToken>::None
NoToken == [id |-> [kind |-> "none", n |-> 0], creation_time |-> 0, lifetime |-> 0]

\* What a remote request can come to: the transport fails (send() or text()
\* is Err, retries of the middleware included), or a response arrives with a
\* status of class 2xx, 4xx or 5xx.
Outcomes == {"ok", "client_error", "server_error", "network_error"}

\* The body of the response to GET /auth: the token text for a 2xx answer,
\* the error page otherwise.
AuthBody(outcome, n) ==
    IF outcome = "ok" THEN [kind |-> "token", n |-> n + 1]
    ELSE IF outcome = "client_error" THEN [kind |-> "error_body", n |-> 403]
    ELSE [kind |-> "error_body", n |-> 500]

\* is_expired with > for >=: a token of age exactly `lifetime` passes
IsExpired_Strict(tok, t) == t - tok.creation_time > tok.lifetime

\* NewToken::is_expired (as of time t)
IsExpired(tok, t) == t - tok.creation_time >= tok.lifetime

\* Server::is_authenticated (as of time t)
IsAuthenticated(tok, t) ==
    IF tok = NoToken THEN FALSE
    ELSE IF IsExpired(tok, t) THEN FALSE
    ELSE TRUE

\* One request as the remote sees it: the endpoint, the key it carries (the
\* Option<NewToken> the id was taken from) and the time it is sent.
Request(endpoint, tok, t, outcome) ==
    [outcome |-> outcome, endpoint |-> endpoint, key |-> tok, at |-> t]

\* auth without the is_authenticated test: every call authenticates
Auth_NoCache(tok, t, outcome, n) ==
    IF outcome = "network_error"
    THEN [token |-> tok, ok |-> FALSE,
          requests |-> <<Request("auth", NoToken, t, outcome)>>]
    ELSE [token |-> [id |-> AuthBody(outcome, n), creation_time |-> t,
                     lifetime |-> Lifetime],
          ok |-> TRUE,
          requests |-> <<Request("auth", NoToken, t, outcome)>>]

\* Server::auth at time t, the remote answering with `outcome` having issued
\* n tokens: the token afterwards, the requests sent, Ok or Err.
Auth(tok, t, outcome, n) ==
    IF ~IsAuthenticated(tok, t)
    THEN IF outcome = "network_error"
         THEN [token |-> tok, ok |-> FALSE,
               requests |-> <<Request("auth", NoToken, t, outcome)>>]
         ELSE [token |-> [id |-> AuthBody(outcome, n),
                          creation_time |-> t,
                          lifetime |-> Lifetime],
               ok |-> TRUE,
               requests |-> <<Request("auth", NoToken, t, outcome)>>]
    ELSE [token |-> tok, ok |-> TRUE, requests |-> <<>>]

\* Server::deauth at time t, the remote answering with `outcome`.
Deauth(tok, t, outcome) ==
    IF IsAuthenticated(tok, t)
    THEN IF outcome = "network_error"
         THEN [token |-> tok, ok |-> FALSE,
               requests |-> <<Request("logout", tok, t, outcome)>>]
         ELSE [token |-> NoToken, ok |-> TRUE,
               requests |-> <<Request("logout", tok, t, outcome)>>]
    ELSE [token |-> NoToken, ok |-> TRUE, requests |-> <<>>]

\* The tokens the remote has issued after a call that sent `requests`.
IssuedAfter(requests, n) ==
    IF \E i \in 1..Len(requests) :
          requests[i].endpoint = "auth" /\ requests[i].outcome = "ok"
    THEN n + 1 ELSE n

\* A call on the Server as its caller sees it.
Call(op, before, t, requests, ok, value) ==
    [at |-> t, ok |-> ok, requests |-> requests, op |-> op, before |-> before,
     value |-> value]

NoCall == Call("none", NoToken, 0, <<>>, TRUE, NoToken.id)

\* Server::new, with the clock at 0.
SessionInit ==
    /\ token = NoToken
    /\ now = 0
    /\ issued = 0
    /\ lastCall = NoCall

\* Time passes between two calls.
Tick ==
    /\ now + ClockStep <= MaxTicks * ClockStep
    /\ now' = now + ClockStep
    /\ UNCHANGED <<token, issued, lastCall>>
    /\ UNCHANGED <<shiftVars, olapVars, botVars>>

\* Server::get_token
GetToken ==
    \E outcome \in Outcomes :
        LET a == Auth(token, now, outcome, issued) IN
        /\ IssuedAfter(a.requests, issued) <= MaxIssued
        /\ token' = a.token
        /\ issued' = IssuedAfter(a.requests, issued)
        /\ lastCall' = Call("get_token", token, now, a.requests, a.ok,
                            IF a.ok THEN a.token.id ELSE NoToken.id)
        /\ UNCHANGED now
        /\ UNCHANGED <<shiftVars, olapVars, botVars>>

\* Server::deauth
DeauthCall ==
    \E outcome \in Outcomes :
        LET d == Deauth(token, now, outcome) IN
        /\ token' = d.token
        /\ lastCall' = Call("deauth", token, now, d.requests, d.ok, NoToken.id)
        /\ UNCHANGED <<now, issued>>
        /\ UNCHANGED <<shiftVars, olapVars, botVars>>

-----------------------------------------------------------------------------
(* Floating point (f64), scaled down to MantBits significant bits.  Values *)
(* are non-negative and counted in units of the smallest amount in play.   *)

RECURSIVE Pow2(_)
Pow2(k) == IF k = 0 THEN 1 ELSE 2 * Pow2(k - 1)

RECURSIVE BitLen(_)
BitLen(x) == IF x = 0 THEN 0 ELSE 1 + BitLen(x \div 2)

\* The nearest representable value, ties to the even significand.
RoundF(x) ==
    IF x < Pow2(MantBits) THEN x
    ELSE LET g == Pow2(BitLen(x) - MantBits)
             q == x \div g
             r == x % g
         IN  IF 2 * r < g THEN q * g
             ELSE IF 2 * r > g THEN (q + 1) * g
             ELSE IF q % 2 = 0 THEN q * g
             ELSE (q + 1) * g

\* f64 addition
FAdd(a, b) == RoundF(a + b)

\* Iterator::sum::<f64>: a left fold of + from 0.0
RECURSIVE FSum(_)
FSum(s) ==
    IF s = <<>> THEN 0
    ELSE FAdd(FSum(SubSeq(s, 1, Len(s) - 1)), s[Len(s)])

-----------------------------------------------------------------------------
(* Shift service: src/src/iiko.rs *)

\* The values pay_orders takes in the model.
PayPool == {0, 1, 75, 100, 250, Pow2(MantBits)}

\* struct Shift, the fields the bot reads.  The remote numbers its shifts in
\* the order it lists them.
Shift(i, pay) ==
    [session_number |-> i, pay_orders |-> pay, sales_cash |-> 10 * i]

\* The Shifts values of the model.
ShiftLists ==
    UNION { { [i \in 1..n |-> Shift(i, pays[i])] : pays \in [1..n -> PayPool] }
            : n \in 0..MaxShifts }

NoShift == Shift(0, 0)

\* Result<Shift, Box<dyn Error>>
ShiftOk(s) == [ok |-> TRUE, shift |-> s]
ShiftErr == [ok |-> FALSE, shift |-> NoShift]

\* latest_shift without its offset >= len test, the index taken modulo len
LatestShift_Wrap(list, off) ==
    LET len == Len(list) IN
    IF len = 0 THEN ShiftErr
    ELSE ShiftOk(list[((len - off - 1) % len) + 1])

\* Server::latest_shift
LatestShift(list, off) ==
    LET len == Len(list) IN
    IF off >= len THEN ShiftErr
    ELSE LET idx == len - off - 1 IN    \* 0-based, Iterator::nth
         IF idx + 1 \in 1..len THEN ShiftOk(list[idx + 1]) ELSE ShiftErr

\* sum_shifts over sales_cash in place of pay_orders
SumShifts_SalesCash(list) == FSum([i \in 1..Len(list) |-> list[i].sales_cash])

\* Server::sum_shifts
SumShifts(list) == FSum([i \in 1..Len(list) |-> list[i].pay_orders])

\* What a request for a JSON document can come to: as Outcomes, and a 2xx
\* answer whose body does not parse.
JsonOutcomes == Outcomes \cup {"unparsable"}

\* Server::list_shifts_with_offset at time t: auth answered with
\* `authOutcome`, the listing with `listOutcome` and, when it answers well,
\* with the shifts `remote`.
ListShiftsWithOffset(tok, t, authOutcome, listOutcome, n, remote) ==
    LET a == Auth(tok, t, authOutcome, n) IN
    IF ~a.ok
    THEN [token |-> a.token, shifts |-> <<>>, ok |-> FALSE,
          requests |-> a.requests]
    ELSE LET list == Request("list", a.token, t, listOutcome) IN
         IF listOutcome = "ok"
         THEN [token |-> a.token, shifts |-> remote, ok |-> TRUE,
               requests |-> Append(a.requests, list)]
         ELSE [token |-> a.token, shifts |-> <<>>, ok |-> FALSE,
               requests |-> Append(a.requests, list)]

-----------------------------------------------------------------------------
(* The dates of a listing (src/src/date.rs, iiko.rs:205-224). The wall     *)
(* clock counts the hours since 2024-12-01 00:00 UTC.                      *)

\* FixedOffset::east_opt(3 * 3600): Moscow is three hours east of UTC
MoscowOffset == 3

\* Dates::Week => moscow_last_(6)
WeekBack == 6

\* The months that the clock passes through
Months ==
    << [year |-> 2024, month |-> 12, days |-> 31],
       [year |-> 2025, month |-> 1, days |-> 31],
       [year |-> 2025, month |-> 2, days |-> 28],
       [year |-> 2025, month |-> 3, days |-> 31] >>

RECURSIVE DaysBefore(_)
DaysBefore(i) == IF i = 1 THEN 0 ELSE DaysBefore(i - 1) + Months[i - 1].days

\* The date of a local time, as format("%Y-%m-%d") writes it: the year, the
\* month and the day of the month of the day that the hour h lies in
Format(h) ==
    LET d == h \div 24
        i == CHOOSE i \in 1..Len(Months) :
                 DaysBefore(i) <= d /\ d < DaysBefore(i) + Months[i].days
    IN  [year |-> Months[i].year, month |-> Months[i].month,
         day |-> d - DaysBefore(i) + 1]

\* The order of the strings "%Y-%m-%d"
DateLeq(a, b) ==
    \/ a.year < b.year
    \/ a.year = b.year /\ a.month < b.month
    \/ a.year = b.year /\ a.month = b.month /\ a.day <= b.day

\* moscow_time() when Utc::now() is t: the date, and the day of the month
\* as format("%d") and parse give it
moscow_time(t) ==
    LET time_moscow == t + MoscowOffset
    IN  <<Format(time_moscow), Format(time_moscow).day>>

\* moscow_last_(days) when Utc::now() is t
moscow_last_(t, days) ==
    LET time_moscow == t + MoscowOffset
        past == time_moscow - 24 * days
    IN  Format(past)

\* The most hours the clock advances while the bounds are read
MaxAdvance == 2

Dates == {"Week", "ThisMonth", "Custom"}

NoDate == [year |-> 0, month |-> 0, day |-> 0]

\* No listing is under way
NoDates ==
    [offset |-> 0, at |-> 0, day |-> 0, pc |-> "idle", date |-> "Week",
     advanced |-> 0, date_from |-> NoDate, openDateTo |-> NoDate]

DatesIdle == utc = 0 /\ dates = NoDates

\* The clock at the calls: from 2025-01-01 00:00 in Moscow to the end of
\* the months
Hours ==
    (24 * DaysBefore(2) - MoscowOffset)
        .. (24 * DaysBefore(Len(Months) + 1) - MoscowOffset - 1 - MaxAdvance)

\* list_shifts_with_offset(server, date, offset) is called at some hour
DateInit ==
    /\ utc \in Hours
    /\ \E date \in Dates, n \in {0, 1} :
           dates = [NoDates EXCEPT !.pc = "match", !.date = date,
                                   !.offset = IF date = "Custom" THEN n ELSE 0,
                                   !.at = utc]

\* Time passes between two reads of the clock
Advance ==
    /\ dates.pc \in {"match", "day", "from"}
    /\ dates.advanced < MaxAdvance
    /\ utc' = utc + 1
    /\ dates' = [dates EXCEPT !.advanced = @ + 1]
    /\ UNCHANGED <<shifts, offset, shiftOut>>
    /\ UNCHANGED <<sessVars, olapVars, botVars>>

\* Dates::ThisMonth: the argument moscow_time().1 - 1 is evaluated
ReadDay ==
    /\ dates.pc = "match" /\ dates.date = "ThisMonth"
    /\ dates' = [dates EXCEPT !.pc = "day", !.day = moscow_time(utc)[2]]
    /\ UNCHANGED <<utc, shifts, offset, shiftOut>>
    /\ UNCHANGED <<sessVars, olapVars, botVars>>

\* let date_from = match date { .. }: the call of moscow_last_
ReadFrom ==
    /\ \/ dates.pc = "match" /\ dates.date # "ThisMonth"
       \/ dates.pc = "day"
    /\ LET days == IF dates.date = "Week" THEN WeekBack
                   ELSE IF dates.date = "ThisMonth" THEN dates.day - 1
                   ELSE dates.offset
       IN  dates' = [dates EXCEPT !.pc = "from",
                                  !.date_from = moscow_last_(utc, days)]
    /\ UNCHANGED <<utc, shifts, offset, shiftOut>>
    /\ UNCHANGED <<sessVars, olapVars, botVars>>

\* ("openDateTo", moscow_time().0): the query is built
ReadTo ==
    /\ dates.pc = "from"
    /\ dates' = [dates EXCEPT !.pc = "query",
                              !.openDateTo = moscow_time(utc)[1]]
    /\ UNCHANGED <<utc, shifts, offset, shiftOut>>
    /\ UNCHANGED <<sessVars, olapVars, botVars>>

DateNext == Advance \/ ReadDay \/ ReadFrom \/ ReadTo

-----------------------------------------------------------------------------
(* The shift service applied to an input *)

NoShiftOut == [op |-> "none", result |-> ShiftErr, sum |-> 0]


ShiftInit ==
    /\ shifts \in ShiftLists
    /\ offset \in 0..(MaxShifts + 1)
    /\ shiftOut = NoShiftOut
    /\ DatesIdle

\* A call of Server::latest_shift(shifts, offset)
LatestShiftCall ==
    /\ shiftOut' = [op |-> "latest_shift", result |-> LatestShift(shifts, offset),
                    sum |-> 0]
    /\ UNCHANGED <<shifts, offset, utc, dates>>
    /\ UNCHANGED <<sessVars, olapVars, botVars>>

\* A call of Server::sum_shifts(shifts)
SumShiftsCall ==
    /\ shiftOut' = [op |-> "sum_shifts", result |-> ShiftErr,
                    sum |-> SumShifts(shifts)]
    /\ UNCHANGED <<shifts, offset, utc, dates>>
    /\ UNCHANGED <<sessVars, olapVars, botVars>>

ShiftNext == LatestShiftCall \/ SumShiftsCall

-----------------------------------------------------------------------------
(* Text: a string is the sequence of its characters (chars()), each a      *)
(* one-character string; " " is the whitespace character.                  *)

Rep(n, c) == [i \in 1..n |-> c]

Max(a, b) == IF a >= b THEN a ELSE b
Min(a, b) == IF a <= b THEN a ELSE b

\* The largest member of a non-empty set of numbers.
MaxOf(S) == CHOOSE x \in S : \A y \in S : y <= x

\* str::split_whitespace, from the i-th character on: cur is the word being
\* read, acc the words read.
RECURSIVE SplitFrom(_, _, _, _)
SplitFrom(text, i, cur, acc) ==
    IF i > Len(text)
    THEN IF cur = <<>> THEN acc ELSE Append(acc, cur)
    ELSE IF text[i] = " "
         THEN SplitFrom(text, i + 1, <<>>,
                        IF cur = <<>> THEN acc ELSE Append(acc, cur))
         ELSE SplitFrom(text, i + 1, Append(cur, text[i]), acc)

SplitWhitespace(text) == SplitFrom(text, 1, <<>>, <<>>)

\* The loop of wrap_text with >= for >: a line is closed one character
\* early.
RECURSIVE WrapWords_Early(_, _, _, _)
WrapWords_Early(words, width, current, lines) ==
    IF words = <<>>
    THEN IF current # <<>> THEN Append(lines, current) ELSE lines
    ELSE LET word == Head(words)
             full == current # <<>> /\ Len(current) + 1 + Len(word) >= width
             lines1 == IF full THEN Append(lines, current) ELSE lines
             current1 == IF full THEN <<>> ELSE current
             current2 == IF current1 # <<>> THEN Append(current1, " ")
                         ELSE current1
         IN  WrapWords_Early(Tail(words), width, current2 \o word, lines1)

\* The loop of wrap_text over the words left, with `current` and `lines`.
RECURSIVE WrapWords(_, _, _, _)
WrapWords(words, width, current, lines) ==
    IF words = <<>>
    THEN IF current # <<>> THEN Append(lines, current) ELSE lines
    ELSE LET word == Head(words)
             full == current # <<>> /\ Len(current) + 1 + Len(word) > width
             lines1 == IF full THEN Append(lines, current) ELSE lines
             current1 == IF full THEN <<>> ELSE current
             current2 == IF current1 # <<>> THEN Append(current1, " ")
                         ELSE current1
         IN  WrapWords(Tail(words), width, current2 \o word, lines1)

\* olap::wrap_text
WrapText(text, width) == WrapWords(SplitWhitespace(text), width, <<>>, <<>>)

DigitChars == <<"0", "1", "2", "3", "4", "5", "6", "7", "8", "9">>

\* to_string of a non-negative whole number (u32, or an f64 without fraction)
RECURSIVE to_string(_)
to_string(n) ==
    IF n < 10 THEN <<DigitChars[n + 1]>>
    ELSE Append(to_string(n \div 10), DigitChars[(n % 10) + 1])

-----------------------------------------------------------------------------
(* OLAP service: src/src/olap.rs, src/src/iiko.rs *)

\* Option<String>
None == [value |-> "", some |-> FALSE]
Some(v) == [value |-> v, some |-> TRUE]

\* The sentinel category of get_olap, in Latin letters.
Sentinel == "Drugie"

\* struct OLAP
OLAP(category, name, sum, guests) ==
    [DishCategory |-> category, DishDiscountSumInt |-> sum,
     DishName |-> name, GuestNum |-> guests]

\* struct OlapElement, built from a row in get_olap
OlapElement(element) ==
    [DishDiscountSumInt |-> element.DishDiscountSumInt,
     DishName |-> element.DishName,
     GuestNum |-> element.GuestNum]

\* HashMap::new()
EmptyMap == [k \in {} |-> <<>>]

\* entry with insert for and_modify: a later row replaces its group
Entry_Insert(map, key, olap) ==
    [k \in DOMAIN map \cup {key} |-> IF k = key THEN <<olap>> ELSE map[k]]

\* olap_map.entry(key).and_modify(|v| v.push(olap)).or_insert_with(|| vec![olap])
Entry(map, key, olap) ==
    IF key \in DOMAIN map
    THEN [map EXCEPT ![key] = Append(@, olap)]
    ELSE [k \in DOMAIN map \cup {key} |-> IF k = key THEN <<olap>> ELSE map[k]]

\* The loop of get_olap over parsed.data, from the i-th row on.
RECURSIVE GroupFrom(_, _, _)
GroupFrom(data, i, map) ==
    IF i > Len(data) THEN map
    ELSE LET element == data[i]
             key == IF element.DishCategory.some
                    THEN element.DishCategory.value ELSE Sentinel
         IN  GroupFrom(data, i + 1, Entry(map, key, OlapElement(element)))

\* Server::get_olap with the key of token `tok`, at time t, the remote
\* answering with `outcome` and, when it answers well, the rows `data`.
GetOlap(tok, t, outcome, data) ==
    IF outcome = "ok"
    THEN [ok |-> TRUE, requests |-> <<Request("olap", tok, t, outcome)>>,
          map |-> GroupFrom(data, 1, EmptyMap)]
    ELSE [ok |-> FALSE, requests |-> <<Request("olap", tok, t, outcome)>>,
          map |-> EmptyMap]

\* take(20)
MaxDisplayed == 20

\* min(15): the cap of the name column
NameCap == 15

\* The headers of display_olap, in Latin letters of the same number.
Headers ==
    << <<"N", "a", "z", "v", "a", "n", "i", "e">>,
       <<"S", "u", "m", "m", "a">>,
       <<"Z", "a", "k", "a", "z", "y">> >>

\* Where slice::sort_by (stable, descending in GuestNum) puts one more element.
RECURSIVE InsertSorted(_, _)
InsertSorted(sorted, e) ==
    IF sorted = <<>> THEN <<e>>
    ELSE LET last == sorted[Len(sorted)] IN
         IF last.GuestNum >= e.GuestNum THEN Append(sorted, e)
         ELSE Append(InsertSorted(SubSeq(sorted, 1, Len(sorted) - 1), e), last)

\* sorted.sort_by(|a, b| b.GuestNum.cmp(&a.GuestNum))
RECURSIVE SortByGuests(_)
SortByGuests(elements) ==
    IF elements = <<>> THEN <<>>
    ELSE InsertSorted(SortByGuests(SubSeq(elements, 1, Len(elements) - 1)),
                      elements[Len(elements)])

\* sorted.into_iter().take(20)
Displayed(elements) ==
    LET sorted == SortByGuests(elements) IN
    SubSeq(sorted, 1, Min(MaxDisplayed, Len(sorted)))

\* The column widths of display_olap for the displayed elements.
Widths(displayed) ==
    LET D == 1..Len(displayed) IN
    << MaxOf({Len(Headers[1])}
             \cup {Min(Len(displayed[i].DishName), NameCap) : i \in D}),
       MaxOf({Len(Headers[2])}
             \cup {Len(to_string(displayed[i].DishDiscountSumInt)) : i \in D}),
       MaxOf({Len(Headers[3])}
             \cup {Len(to_string(displayed[i].GuestNum)) : i \in D}) >>

\* One line of the table: what it is, its characters, and for a data line
\* the name it carries and its two fields.
Line(kind, text, name, fields) ==
    [kind |-> kind, text |-> text, name |-> name, fields |-> fields]

\* draw_border
DrawBorder(widths) ==
    Line("border",
         <<"+">> \o Rep(widths[1] + 2, "-") \o <<"+">>
                 \o Rep(widths[2] + 2, "-") \o <<"+">>
                 \o Rep(widths[3] + 2, "-") \o <<"+">>,
         <<>>, <<>>)

\* The header cell of column i
HeaderCell(widths, i) ==
    LET total == widths[i] + 2
        pad_left == (total - Len(Headers[i])) \div 2
        pad_right == total - Len(Headers[i]) - pad_left
    IN  Rep(pad_left, " ") \o Headers[i] \o Rep(pad_right, " ") \o <<"|">>

HeaderLine(widths) ==
    Line("header",
         <<"|">> \o HeaderCell(widths, 1) \o HeaderCell(widths, 2)
                 \o HeaderCell(widths, 3),
         <<>>, <<>>)

\* let pad_right = widths[0] + 2 - 1 - line.chars().count()
NamePad(widths, line) == widths[1] + 2 - 1 - Len(line)

\* let pad_right = total - 1 - cell.chars().count(), for field `size` (0, 1)
FieldPad(widths, size, cell) == widths[size + 2] + 2 - 1 - Len(cell)

\* The fields of line line_idx (0-based) of an element
Fields(element, line_idx) ==
    IF line_idx = 0
    THEN <<to_string(element.DishDiscountSumInt), to_string(element.GuestNum)>>
    ELSE << <<>>, <<>> >>

\* One line of an element of the table
DataLine(widths, element, line_idx, line) ==
    LET fields == Fields(element, line_idx) IN
    Line("data",
         <<"|", " ">> \o line \o Rep(NamePad(widths, line), " ") \o <<"|">>
           \o <<" ">> \o fields[1]
           \o Rep(FieldPad(widths, 0, fields[1]), " ") \o <<"|">>
           \o <<" ">> \o fields[2]
           \o Rep(FieldPad(widths, 1, fields[2]), " ") \o <<"|">>,
         line, fields)

\* The lines of one element
ElementLines(widths, element) ==
    LET name_lines == WrapText(element.DishName, widths[1]) IN
    [k \in 1..Len(name_lines) |-> DataLine(widths, element, k - 1, name_lines[k])]

\* The loop of display_olap over the displayed elements, from the idx-th on
RECURSIVE RowsFrom(_, _, _)
RowsFrom(widths, displayed, idx) ==
    IF idx > Len(displayed) THEN <<>>
    ELSE ElementLines(widths, displayed[idx])
         \o (IF idx # Len(displayed) THEN <<DrawBorder(widths)>> ELSE <<>>)
         \o RowsFrom(widths, displayed, idx + 1)

\* Whether a usize subtraction of display_olap goes below zero: the thread
\* panics then (on the subtraction with overflow checks, on the repeat of
\* the wrapped count without).
Underflows(widths, displayed) ==
    \/ \E i \in 1..3 : widths[i] + 2 - Len(Headers[i]) < 0
    \/ \E i \in 1..Len(displayed) :
          LET name_lines == WrapText(displayed[i].DishName, widths[1]) IN
          \E k \in 1..Len(name_lines) :
              \/ NamePad(widths, name_lines[k]) < 0
              \/ \E size \in 0..1 :
                    FieldPad(widths, size, Fields(displayed[i], k - 1)[size + 1]) < 0

\* The code fence around the table (three backquotes, written ~ here)
Fence == Line("fence", <<"~", "~", "~">>, <<>>, <<>>)

\* Server::display_olap: the lines of the String it returns, or a panic
DisplayOlap(elements) ==
    LET displayed == Displayed(elements)
        widths == Widths(displayed)
    IN  IF Underflows(widths, displayed)
        THEN [lines |-> <<>>, panicked |-> TRUE]
        ELSE [lines |-> <<Fence, DrawBorder(widths), HeaderLine(widths),
                          DrawBorder(widths)>>
                        \o RowsFrom(widths, displayed, 1)
                        \o <<DrawBorder(widths), Fence>>,
              panicked |-> FALSE]

\* The rows of the model's answers.
RowPool ==
    { OLAP(Some("Pizza"), <<"a", "a", "a", "a", " ", "b", "b", "b">>, 1200, 5),
      OLAP(None, Rep(17, "c"), 90, 5),
      OLAP(Some(Sentinel), <<>>, 5, 12),
      OLAP(Some("Pizza"),
           Rep(7, "d") \o <<" ">> \o Rep(8, "e") \o <<" ">> \o Rep(3, "f"),
           100000, 3),
      OLAP(None, Rep(16, "g"), 7, 100),
      OLAP(Some("Sushi"), <<"h">>, 0, 5) }

\* An answer is a pattern of at most MaxPattern rows repeated to a length
\* of at most MaxRows.
MaxPattern == 2
MaxRows == 22

OlapAnswers ==
    { [i \in 1..n |-> pattern[((i - 1) % Len(pattern)) + 1]] :
        pattern \in UNION { [1..k -> RowPool] : k \in 1..MaxPattern },
        n \in 0..MaxRows }

NoTable == [lines |-> <<>>, panicked |-> FALSE]
NoOlapOut == [ok |-> TRUE, op |-> "none", map |-> EmptyMap, table |-> NoTable]

OlapInit ==
    /\ olapData \in OlapAnswers
    /\ olapOut = NoOlapOut

\* A call of Server::get_olap answered with olapData
GetOlapCall ==
    \E outcome \in JsonOutcomes :
        LET g == GetOlap(NoToken, 0, outcome, olapData) IN
        /\ olapOut' = [ok |-> g.ok, op |-> "get_olap", map |-> g.map,
                       table |-> NoTable]
        /\ UNCHANGED <<olapData, wrapIn, wrapOut>>
        /\ UNCHANGED <<sessVars, shiftVars, botVars>>

\* A call of Server::display_olap on the elements of olapData
DisplayOlapCall ==
    /\ olapOut' = [ok |-> TRUE, op |-> "display_olap", map |-> EmptyMap,
                   table |-> DisplayOlap([i \in 1..Len(olapData) |->
                                             OlapElement(olapData[i])])]
    /\ UNCHANGED <<olapData, wrapIn, wrapOut>>
    /\ UNCHANGED <<sessVars, shiftVars, botVars>>

OlapNext == GetOlapCall \/ DisplayOlapCall

\* The texts and the widths wrap_text is applied to in WrapSpec: every text
\* of at most MaxText characters out of two letters and the space, every
\* width up to MaxWidth.
MaxText == 5
MaxWidth == 6

WrapTexts == UNION { [1..n -> {"a", "b", " "}] : n \in 0..MaxText }

NoWrapIn == [text |-> <<>>, width |-> 0]
NoWrapOut == [lines |-> <<>>, called |-> FALSE]

WrapInit ==
    /\ wrapIn \in [text : WrapTexts, width : 0..MaxWidth]
    /\ wrapOut = NoWrapOut

\* A call of wrap_text(text, width)
WrapTextCall ==
    /\ wrapOut' = [lines |-> WrapText(wrapIn.text, wrapIn.width),
                   called |-> TRUE]
    /\ UNCHANGED <<olapData, olapOut, wrapIn>>
    /\ UNCHANGED <<sessVars, shiftVars, botVars>>

WrapNext == WrapTextCall

-----------------------------------------------------------------------------
(* The calls on one Server that send its token: src/src/iiko.rs, tg.rs *)

\* What the remote lists in SessionSpec.
SampleShifts == <<Shift(1, 100), Shift(2, 250), Shift(3, 75)>>

\* Server::list_shifts_with_offset
ListShiftsCall ==
    \E authOutcome \in Outcomes, listOutcome \in JsonOutcomes :
        LET l == ListShiftsWithOffset(token, now, authOutcome, listOutcome,
                                      issued, SampleShifts)
        IN
        /\ IssuedAfter(l.requests, issued) <= MaxIssued
        /\ token' = l.token
        /\ issued' = IssuedAfter(l.requests, issued)
        /\ lastCall' = Call("list_shifts", token, now, l.requests, l.ok,
                            NoToken.id)
        /\ UNCHANGED now
        /\ UNCHANGED <<shiftVars, olapVars, botVars>>

\* server.get_token() and Server::get_olap with its result, as in
\* handle_olap
OlapFetch(tok, t, authOutcome, olapOutcome, n, data) ==
    LET a == Auth(tok, t, authOutcome, n) IN
    IF ~a.ok
    THEN [token |-> a.token, ok |-> FALSE, requests |-> a.requests,
          map |-> EmptyMap]
    ELSE LET g == GetOlap(a.token, t, olapOutcome, data) IN
         [token |-> a.token, ok |-> g.ok,
          requests |-> a.requests \o g.requests, map |-> g.map]

OlapFetchCall ==
    \E authOutcome \in Outcomes, olapOutcome \in JsonOutcomes :
        LET f == OlapFetch(token, now, authOutcome, olapOutcome, issued, <<>>)
        IN
        /\ IssuedAfter(f.requests, issued) <= MaxIssued
        /\ token' = f.token
        /\ issued' = IssuedAfter(f.requests, issued)
        /\ lastCall' = Call("olap_fetch", token, now, f.requests, f.ok,
                            NoToken.id)
        /\ UNCHANGED now
        /\ UNCHANGED <<shiftVars, olapVars, botVars>>

SessionNext ==
    Tick \/ GetToken \/ DeauthCall \/ ListShiftsCall \/ OlapFetchCall

-----------------------------------------------------------------------------
(* Conversation engine: src/src/tg.rs.  A handler is a function of a       *)
(* context: the message, the state the handler reads and writes, and what  *)
(* it has done so far.  Once an error is on its way up (err) or the task   *)
(* has panicked, the steps that follow in the code are not run.            *)

\* A text is a number of leading "@" characters and the rest of it.
Text(at, rest) == [at |-> at, rest |-> rest]
Txt(rest) == Text(0, rest)

\* Option<&str> of a message: message.text(), the username of its sender
NoText == [value |-> Txt(""), some |-> FALSE]

\* str::is_empty
IsEmpty(text) == text.at = 0 /\ text.rest = ""

\* text.strip_prefix('@').unwrap_or(text)
StripPrefix(text) == IF text.at > 0 THEN Text(text.at - 1, text.rest) ELSE text

\* The labels of the keyboards, which are the texts the handlers match on
\* (Russian in the source, in Latin letters here).
Label ==
    [list |-> Txt("Spisok serverov"), month |-> Txt("Za tekushchij mesyac"),
     olap |-> Txt("Olap otchyot"), reports |-> Txt("Otchyoty"),
     switch |-> Txt("Smenit server"), admin |-> Txt("Administrirovanie"),
     today |-> Txt("Za segodnya"), yesterday |-> Txt("Za vchera"),
     week |-> Txt("Za 7 dnej"), back |-> Txt("Nazad"),
     add_user |-> Txt("Dobavit polzovatelya"),
     delete_user |-> Txt("Udalit polzovatelya"),
     list_users |-> Txt("Spisok polzovatelej"),
     list_admins |-> Txt("Spisok adminov")]

\* enum State
States ==
    {"None", "Switch", "Olap", "AddUser", "DeleteUser", "Dialogue", "Report",
     "Admin"}

\* Cfg.servers: alias -> base URL
ServerMap == [a \in {"main", "second"} |-> IF a = "main" THEN "url1" ELSE "url2"]

\* TgCfg.admins
Admins == <<Txt("root")>>

\* Vec::contains
Contains(list, x) == \E i \in 1..Len(list) : list[i] = x

\* Vec::retain(|account| account != x)
Retain(list, x) == LET Keep(y) == y # x IN SelectSeq(list, Keep)

\* The context of a handler for one message.
\*   chat, username, text   the message (username, text: Option)
\*   state                  the dialogue state of the chat
\*   allowed, accounts      the allow-list and the accounts of tg_cfg.toml
\*   current, olap          ServerState.current and the OLAP store
\*   server, issued, now    the handler's Server, the remote, the clock
\*   calls                  the bot API calls that went through
\*   requests               the requests sent to the remote
\*   attempts, failAt       bot API calls made; the one that fails (0: none)
\*   remote, file           how the remote answers this handler's requests,
\*                          how the file system does
\*   held, locks            the mutexes held; each acquisition with those
\*                          held then
\*   err, panicked, logged  an Err on its way up; a panic; errors printed
Context(chat, username, text, failAt, remote, file) ==
    [now |-> now, issued |-> issued, accounts |-> accounts, requests |-> <<>>,
     remote |-> remote, text |-> text, current |-> servers.current,
     olap |-> olap_store, panicked |-> FALSE, chat |-> chat,
     username |-> username, failAt |-> failAt, file |-> file,
     state |-> dialogue[chat], allowed |-> allowed_list,
     server |-> [token |-> token, url |-> ""], attempts |-> 0, calls |-> <<>>,
     held |-> {}, locks |-> <<>>, err |-> FALSE, logged |-> 0]

Stopped(ctx) == ctx.err \/ ctx.panicked

\* A `?` on an Err, or a return of Err
Fail(ctx) == IF Stopped(ctx) THEN ctx ELSE [ctx EXCEPT !.err = TRUE, !.held = {}]

\* mutex.lock().await
Acquire(ctx, mutex) ==
    IF Stopped(ctx) THEN ctx
    ELSE [ctx EXCEPT !.locks = Append(@, [held |-> ctx.held, mutex |-> mutex]),
                     !.held = @ \cup {mutex}]

\* the guard of a mutex is dropped
Release(ctx, mutex) ==
    IF Stopped(ctx) THEN ctx ELSE [ctx EXCEPT !.held = @ \ {mutex}]

\* One call of the bot API, awaited with `?`
ApiCall(ctx, method, body) ==
    IF Stopped(ctx) THEN ctx
    ELSE IF ctx.attempts + 1 = ctx.failAt
         THEN Fail([ctx EXCEPT !.attempts = @ + 1])
         ELSE [ctx EXCEPT !.attempts = @ + 1,
                          !.calls = Append(@, [held |-> ctx.held,
                                               method |-> method,
                                               body |-> body])]

\* bot.send_message(message.chat.id, ..).await?
SendMessage(ctx, body) == ApiCall(ctx, "send_message", body)

\* dialogue.update(state).await?
Update(ctx, state) == IF Stopped(ctx) THEN ctx ELSE [ctx EXCEPT !.state = state]

\* if let Err(e) = result { eprintln!(..) }: the error ends here, with the
\* mutexes the catching function held before the call
Catch(ctx, held) ==
    IF ctx.err /\ ~ctx.panicked
    THEN [ctx EXCEPT !.err = FALSE, !.logged = @ + 1, !.held = held]
    ELSE ctx

\* is_allowed
IsAllowed(list, username) == Contains(list, username)

\* is_admin
IsAdmin(username) == Contains(Admins, username)

\* The bodies of the messages the bot sends
Msg(kind) == [kind |-> kind]

\* handle_start without its dialogue.update(State::Dialogue)
HandleStart_NoUpdate(ctx) ==
    IF Stopped(ctx) THEN ctx
    ELSE IF ~ctx.username.some THEN Fail(ctx)
    ELSE LET c1 == Release(Acquire(ctx, "allowed_list"), "allowed_list") IN
         IF ~IsAllowed(ctx.allowed, ctx.username.value)
               /\ ~IsAdmin(ctx.username.value)
         THEN SendMessage(c1, Msg("not in the list of users"))
         ELSE LET c2 == ApiCall(c1, "set_my_commands", Msg("commands"))
                  c3 == ApiCall(c2, "set_chat_menu_button", Msg("commands"))
              IN  SendMessage(c3, Msg("main menu"))

\* handle_start
HandleStart(ctx) ==
    IF Stopped(ctx) THEN ctx
    ELSE IF ~ctx.username.some THEN Fail(ctx)
    ELSE LET c1 == Release(Acquire(ctx, "allowed_list"), "allowed_list") IN
         IF ~IsAllowed(ctx.allowed, ctx.username.value)
               /\ ~IsAdmin(ctx.username.value)
         THEN SendMessage(c1, Msg("not in the list of users"))
         ELSE LET c2 == ApiCall(c1, "set_my_commands", Msg("commands"))
                  c3 == ApiCall(c2, "set_chat_menu_button", Msg("commands"))
                  c4 == SendMessage(c3, Msg("main menu"))
              IN  Update(c4, "Dialogue")

\* list_reports
ListReports(ctx) == Update(SendMessage(ctx, Msg("reports menu")), "Report")

\* handle_switch
HandleSwitch(ctx) ==
    LET c1 == Release(Acquire(ctx, "servers"), "servers")
        c2 == SendMessage(c1, [kind |-> "current server",
                               server |-> ctx.current,
                               keys |-> DOMAIN ServerMap])
    IN  Update(c2, "Switch")

\* handle_list
HandleList(ctx) ==
    LET c1 == Release(Acquire(ctx, "servers"), "servers")
        c2 == Release(Acquire(c1, "servers"), "servers")
        c3 == SendMessage(c2, [servers |-> ServerMap,
                               kind |-> "list of servers",
                               server |-> ctx.current])
    IN  HandleStart(c3)

\* handle_admin without its is_admin test
HandleAdmin_Open(ctx) ==
    IF Stopped(ctx) THEN ctx
    ELSE IF ~ctx.username.some THEN Fail(ctx)
    ELSE Update(SendMessage(ctx, Msg("admin menu")), "Admin")

\* handle_admin
HandleAdmin(ctx) ==
    IF Stopped(ctx) THEN ctx
    ELSE IF ~ctx.username.some THEN Fail(ctx)
    ELSE IF ~IsAdmin(ctx.username.value)
         THEN HandleStart(SendMessage(ctx, Msg("not in the list of admins")))
         ELSE Update(SendMessage(ctx, Msg("admin menu")), "Admin")

\* handle_dialogue
HandleDialogue(ctx) ==
    IF ~ctx.text.some THEN ctx
    ELSE LET text == ctx.text.value
             result ==
                 IF text = Label.reports THEN ListReports(ctx)
                 ELSE IF text = Label.switch THEN HandleSwitch(ctx)
                 ELSE IF text = Label.list THEN HandleList(ctx)
                 ELSE IF text = Label.admin THEN HandleAdmin(ctx)
                 ELSE HandleStart(ctx)
         IN  Catch(result, {})

\* format_with_dots: the characters of the number, a "." before every
\* group of three digits but the first
FormatWithDots(number) ==
    LET number_string == to_string(number)
        length == Len(number_string)
        Piece(size) ==      \* size: the 0-based index of the character
            IF size > 0 /\ (length - size) % 3 = 0
            THEN <<".", number_string[size + 1]>>
            ELSE <<number_string[size + 1]>>
        RECURSIVE From(_)
        From(size) == IF size >= length THEN <<>> ELSE Piece(size) \o From(size + 1)
    IN  From(0)

\* Server::new, as a handler holds it: the URL and the token
ServerNew_Kept(url) == [token |-> token, url |-> url]

ServerNew(url) == [token |-> NoToken, url |-> url]

\* collect_server_info made to return the alias of one lock scope and the
\* URL of another, taken when the requests are sent
CollectServerInfo_TwoScopes(ctx) ==
    IF Stopped(ctx) THEN ctx
    ELSE LET c1 == Release(Acquire(ctx, "servers"), "servers") IN
         [c1 EXCEPT !.server = ServerNew(ServerMap[servers.current])]

\* collect_server_info, and Server::new with what it returned
CollectServerInfo(ctx) ==
    IF Stopped(ctx) THEN ctx
    ELSE LET c1 == Release(Acquire(ctx, "servers"), "servers") IN
         [c1 EXCEPT !.server = ServerNew(ServerMap[ctx.current])]

\* A call on the handler's Server, awaited with `?`: r is what it came to
Await(ctx, r) ==
    IF Stopped(ctx) THEN ctx
    ELSE LET sent == [i \in 1..Len(r.requests) |->
                         [url |-> ctx.server.url, held |-> ctx.held,
                          request |-> r.requests[i]]]
             c1 == [ctx EXCEPT !.server.token = r.token,
                               !.requests = @ \o sent,
                               !.issued = IssuedAfter(r.requests, @)]
         IN  IF r.ok THEN c1 ELSE Fail(c1)

\* Server::list_shifts_with_offset(&mut server, ..) of a report handler
ShiftsOf(ctx) ==
    ListShiftsWithOffset(ctx.server.token, ctx.now, ctx.remote.auth,
                         ctx.remote.data, ctx.issued, ctx.remote.shifts)

\* server.deauth().await?
AwaitDeauth(ctx) ==
    IF Stopped(ctx) THEN ctx
    ELSE Await(ctx, Deauth(ctx.server.token, ctx.now, ctx.remote.logout))

\* The message of handle_today and handle_yesterday
ShiftMessage(kind, server, shift) ==
    [kind |-> kind, session_number |-> FormatWithDots(shift.session_number),
     pay_orders |-> FormatWithDots(shift.pay_orders),
     sales_cash |-> FormatWithDots(shift.sales_cash), server |-> server]

\* handle_today (offset 0) and handle_yesterday (offset 1)
HandleShift(ctx, kind, off) ==
    LET c1 == CollectServerInfo(ctx)
        l == ShiftsOf(c1)
        c2 == AwaitDeauth(Await(c1, l))
        shift == LatestShift(l.shifts, off)
        c3 == IF shift.ok THEN c2 ELSE Fail(c2)
    IN  SendMessage(c3, ShiftMessage(kind, ctx.current, shift.shift))

HandleToday(ctx) == HandleShift(ctx, "current shift", 0)

HandleYesterday(ctx) == HandleShift(ctx, "previous shift", 1)

\* handle_week and handle_month
HandleSum(ctx, kind) ==
    LET c1 == CollectServerInfo(ctx)
        l == ShiftsOf(c1)
        c2 == AwaitDeauth(Await(c1, l))
        sum == SumShifts(l.shifts)
    IN  SendMessage(c2, [kind |-> kind, sum |-> FormatWithDots(sum),
                         server |-> ctx.current])

HandleWeek(ctx) == HandleSum(ctx, "sum of the last 7 days")

HandleMonth(ctx) == HandleSum(ctx, "sum of the month")

\* handle_olap
HandleOlap(ctx) ==
    LET c1 == CollectServerInfo(ctx)
        f == OlapFetch(c1.server.token, c1.now, ctx.remote.auth,
                       ctx.remote.data, c1.issued, ctx.remote.rows)
        c2 == AwaitDeauth(Await(c1, f))
        c3 == Acquire(c2, "olap_store")
        c4 == IF Stopped(c3) THEN c3
              ELSE Release([c3 EXCEPT !.olap = f.map], "olap_store")
    IN  IF f.map = EmptyMap
        THEN SendMessage(c4, Msg("nothing found"))
        ELSE Update(SendMessage(c4, [kind |-> "olap mode",
                                     server |-> ctx.current,
                                     keys |-> DOMAIN f.map]),
                    "Olap")

\* handle_reports without the handle_start that follows a shift report
HandleReports_Stay(ctx) ==
    IF ~ctx.text.some THEN ctx
    ELSE LET text == ctx.text.value IN
         IF text = Label.today THEN HandleToday(ctx)
         ELSE IF text = Label.yesterday THEN HandleYesterday(ctx)
         ELSE IF text = Label.week THEN HandleWeek(ctx)
         ELSE IF text = Label.month THEN HandleMonth(ctx)
         ELSE IF text = Label.olap THEN HandleOlap(ctx)
         ELSE IF text = Label.back THEN HandleStart(ctx)
         ELSE ctx

\* handle_reports
HandleReports(ctx) ==
    IF ~ctx.text.some THEN ctx
    ELSE LET text == ctx.text.value IN
         IF text = Label.today THEN HandleStart(HandleToday(ctx))
         ELSE IF text = Label.yesterday THEN HandleStart(HandleYesterday(ctx))
         ELSE IF text = Label.week THEN HandleStart(HandleWeek(ctx))
         ELSE IF text = Label.month THEN HandleStart(HandleMonth(ctx))
         ELSE IF text = Label.olap THEN HandleOlap(ctx)
         ELSE IF text = Label.back THEN HandleStart(ctx)
         ELSE ctx

\* The accounts of tg_cfg.toml: a list, or a file that does not parse
File(list) == [ok |-> TRUE, list |-> list]
Truncated == [ok |-> FALSE, list |-> <<>>]

FileOutcomes == {"ok", "read_error", "create_error", "write_error"}

\* telegram_config.accounts.push(account) and .retain(|a| a != account)
Changed(list, change) ==
    IF change.push THEN Append(list, change.account)
    ELSE Retain(list, change.account)

\* read_to_struct, a change of telegram_config.accounts, fs::File::create
\* and write_all, each with `?`
Rewrite(ctx, change) ==
    IF Stopped(ctx) THEN ctx
    ELSE IF ctx.file = "read_error" \/ ~ctx.accounts.ok THEN Fail(ctx)
    ELSE IF ctx.file = "create_error" THEN Fail(ctx)
    ELSE IF ctx.file = "write_error"
         THEN Fail([ctx EXCEPT !.accounts = Truncated])
         ELSE [ctx EXCEPT !.accounts = File(Changed(ctx.accounts.list, change))]

\* handle_add_user
HandleAddUser(ctx) ==
    Update(SendMessage(ctx, Msg("enter the name of the user")), "AddUser")

\* handle_add_user_dialogue without its `if username.is_empty()`
HandleAddUserDialogue_NoCheck(ctx) ==
    IF ~ctx.text.some THEN Fail(ctx)
    ELSE LET stripped == StripPrefix(ctx.text.value)
             push == [push |-> TRUE, account |-> stripped]
             c1 == Acquire(ctx, "allowed_list")
             c2 == IF ~Contains(c1.allowed, stripped)
                   THEN [c1 EXCEPT !.allowed = Changed(@, push)] ELSE c1
             c3 == Release(c2, "allowed_list")
             c4 == Update(Rewrite(c3, push), "None")
             c5 == SendMessage(c4, [kind |-> "user added",
                                    user |-> stripped])
         IN  HandleStart(c5)

\* handle_add_user_dialogue without its `if !accounts.contains(..)`
HandleAddUserDialogue_Push(ctx) ==
    IF ~ctx.text.some THEN Fail(ctx)
    ELSE LET username == ctx.text.value IN
         IF IsEmpty(username)
         THEN SendMessage(ctx, Msg("no name entered"))
         ELSE LET stripped == StripPrefix(username)
                  push == [push |-> TRUE, account |-> stripped]
                  c1 == Acquire(ctx, "allowed_list")
                  c2 == [c1 EXCEPT !.allowed = Changed(@, push)]
                  c3 == Release(c2, "allowed_list")
                  c4 == Update(Rewrite(c3, push), "None")
                  c5 == SendMessage(c4, [kind |-> "user added",
                                         user |-> stripped])
              IN  HandleStart(c5)

\* handle_add_user_dialogue
HandleAddUserDialogue(ctx) ==
    IF ~ctx.text.some THEN Fail(ctx)
    ELSE LET username == ctx.text.value IN
         IF IsEmpty(username)
         THEN SendMessage(ctx, Msg("no name entered"))
         ELSE LET stripped == StripPrefix(username)
                  push == [push |-> TRUE, account |-> stripped]
                  c1 == Acquire(ctx, "allowed_list")
                  c2 == IF ~Contains(c1.allowed, stripped)
                        THEN [c1 EXCEPT !.allowed = Changed(@, push)] ELSE c1
                  c3 == Release(c2, "allowed_list")
                  c4 == Update(Rewrite(c3, push), "None")
                  c5 == SendMessage(c4, [kind |-> "user added",
                                         user |-> stripped])
              IN  HandleStart(c5)

\* handle_delete_user made to read the servers under its guard
HandleDeleteUser_Servers(ctx) ==
    LET c1 == Acquire(Acquire(ctx, "allowed_list"), "servers")
        c2 == IF Stopped(c1) THEN c1
              ELSE Catch(SendMessage(c1, [kind |-> "choose the account",
                                          keys |-> ctx.allowed]),
                         c1.held)
    IN  Update(c2, "DeleteUser")

\* handle_delete_user
HandleDeleteUser(ctx) ==
    LET c1 == Acquire(ctx, "allowed_list")
        c2 == IF Stopped(c1) THEN c1
              ELSE Catch(SendMessage(c1, [kind |-> "choose the account",
                                          keys |-> ctx.allowed]),
                         c1.held)
    IN  Update(c2, "DeleteUser")

\* handle_list_users
HandleListUsers(ctx) ==
    LET c1 == Release(Acquire(ctx, "allowed_list"), "allowed_list")
        c2 == SendMessage(c1, [kind |-> "list of users", list |-> ctx.allowed])
    IN  HandleStart(c2)

\* handle_list_admins
HandleListAdmins(ctx) ==
    HandleStart(SendMessage(ctx, [kind |-> "list of admins", list |-> Admins]))

\* callback_admin
CallbackAdmin(ctx) ==
    IF ~ctx.text.some THEN ctx
    ELSE LET text == ctx.text.value IN
         IF text = Label.add_user THEN HandleAddUser(ctx)
         ELSE IF text = Label.delete_user THEN HandleDeleteUser(ctx)
         ELSE IF text = Label.list_users THEN HandleListUsers(ctx)
         ELSE IF text = Label.list_admins THEN HandleListAdmins(ctx)
         ELSE IF text = Label.back THEN HandleStart(ctx)
         ELSE ctx

\* HashMap::get with the text of a message as the key
HasKey(map, text) == text.at = 0 /\ text.rest \in DOMAIN map

\* callback_switch without its look-up of the text among the keys
CallbackSwitch_Unchecked(ctx) ==
    IF ~ctx.text.some THEN Fail(ctx)
    ELSE LET data == ctx.text.value
             c1 == Acquire(ctx, "servers")
             c2 == SendMessage([c1 EXCEPT !.current = data.rest],
                               [kind |-> "current server is now",
                                server |-> data.rest,
                                url |-> ""])
         IN  HandleStart(Update(c2, "None"))

\* callback_switch
CallbackSwitch(ctx) ==
    IF ~ctx.text.some THEN Fail(ctx)
    ELSE LET data == ctx.text.value
             c1 == Acquire(ctx, "servers")
             c2 == IF HasKey(ServerMap, data)
                   THEN SendMessage([c1 EXCEPT !.current = data.rest],
                                    [kind |-> "current server is now",
                                     server |-> data.rest,
                                     url |-> ServerMap[data.rest]])
                   ELSE c1
         IN  HandleStart(Update(c2, "None"))

\* A panic of the handler's task: nothing after it is run
Panic(ctx) == IF Stopped(ctx) THEN ctx ELSE [ctx EXCEPT !.panicked = TRUE, !.held = {}]

\* callback_olap
CallbackOlap(ctx) ==
    IF ~ctx.text.some THEN Fail(ctx)
    ELSE LET data == ctx.text.value
             c1 == Acquire(ctx, "olap_store")
             c2 == IF HasKey(ctx.olap, data)
                   THEN LET text == DisplayOlap(ctx.olap[data.rest]) IN
                        IF text.panicked THEN Panic(c1)
                        ELSE SendMessage(c1, [kind |-> "table",
                                              lines |-> text.lines])
                   ELSE c1
         IN  HandleStart(Update(c2, "None"))

\* callback_delete_user
CallbackDeleteUser(ctx) ==
    IF ~ctx.text.some THEN Fail(ctx)
    ELSE LET data == ctx.text.value
             retain == [push |-> FALSE, account |-> data]
             c1 == Acquire(ctx, "allowed_list")
             removed == Contains(ctx.allowed, data)
             c2 == Release(IF removed THEN [c1 EXCEPT !.allowed = Changed(@, retain)]
                                      ELSE c1,
                           "allowed_list")
             c3 == IF removed
                   THEN SendMessage(Rewrite(c2, retain),
                                    [kind |-> "user deleted", user |-> data])
                   ELSE c2
             c4 == Update(c3, "None")
         IN  IF Stopped(c4) THEN c4 ELSE Catch(HandleStart(c4), c4.held)

\* handle_states: the whole handling of one message; the guards of the
\* mutexes are dropped when it returns
HandleStates(ctx) ==
    LET state == ctx.state
        result ==
            IF state = "AddUser" THEN HandleAddUserDialogue(ctx)
            ELSE IF state = "DeleteUser" THEN CallbackDeleteUser(ctx)
            ELSE IF state = "Olap" THEN CallbackOlap(ctx)
            ELSE IF state = "Switch" THEN CallbackSwitch(ctx)
            ELSE IF state = "Dialogue" THEN HandleDialogue(ctx)
            ELSE IF state = "Report" THEN HandleReports(ctx)
            ELSE IF state = "Admin" THEN CallbackAdmin(ctx)
            ELSE HandleStart(ctx)
        caught == Catch(result, {})
    IN  [caught EXCEPT !.held = {}]

\* The chats and the senders of the model
Chats == {1, 2}
Alice == Txt("alice")
Bob == Txt("bob")
Root == Admins[1]

\* What the remote lists when it answers a report handler well
ShiftAnswers == {<<>>, <<Shift(1, 100)>>, SampleShifts}

RowAnswers ==
    { <<>>,
      <<OLAP(Some("Pizza"), <<"h">>, 0, 5)>>,
      <<OLAP(Some("Pizza"), <<"a", "a", "a", "a", " ", "b", "b", "b">>, 1200, 5),
        OLAP(Some("Sushi"), <<"h">>, 0, 5)>>,
      <<OLAP(None, Rep(17, "c"), 90, 5)>> }

\* How the remote answers the requests of one handler
Remote(auth, data, logout, list, rows) ==
    [shifts |-> list, data |-> data, auth |-> auth, logout |-> logout,
     rows |-> rows]

NoRemote == Remote("ok", "ok", "ok", <<>>, <<>>)

ShiftCommands == {Label.today, Label.yesterday, Label.week, Label.month}
ReportCommands == ShiftCommands \cup {Label.olap}

\* The answers that make a difference to a report handler: a request that
\* is not sent has no answer to choose.
Remotes(lists, answers) ==
    { r \in [auth : Outcomes, data : JsonOutcomes, logout : Outcomes,
             shifts : lists \cup {<<>>}, rows : answers \cup {<<>>}] :
        /\ r.auth = "network_error" => r.data = "ok"
        /\ r.data # "ok" \/ r.auth = "network_error"
              => r.logout = "ok" /\ r.shifts = <<>> /\ r.rows = <<>> }

ShiftRemotes == { r \in Remotes(ShiftAnswers, {}) : TRUE }
OlapRemotes == { r \in Remotes({}, RowAnswers) : TRUE }

\* The answers to choose from for the handler of `text` in `state`
RemotesFor(state, text) ==
    IF state = "Report" /\ text.some /\ text.value \in ShiftCommands
    THEN ShiftRemotes
    ELSE IF state = "Report" /\ text.some /\ text.value = Label.olap
         THEN OlapRemotes
         ELSE {NoRemote}

FilesFor(state) ==
    IF state \in {"AddUser", "DeleteUser"} THEN FileOutcomes ELSE {"ok"}

\* The most calls of the bot API one handler makes
MaxApiCalls == 4

\* The most accounts the file and the allow-list come to hold
MaxAccounts == 2

\* What is kept of a message and of its handler
Handled(before, server, ctx) ==
    [at |-> ctx.now, requests |-> ctx.requests, before |-> before,
     remote |-> ctx.remote, text |-> ctx.text, panicked |-> ctx.panicked,
     chat |-> ctx.chat, username |-> ctx.username, server |-> server,
     calls |-> ctx.calls, locks |-> ctx.locks, logged |-> ctx.logged,
     after |-> ctx.state,
     failed |-> ctx.failAt # 0 /\ ctx.attempts >= ctx.failAt]

NoMsg ==
    [at |-> 0, requests |-> <<>>, before |-> "None", remote |-> NoRemote,
     text |-> NoText, panicked |-> FALSE, chat |-> 0, username |-> NoText,
     server |-> "", calls |-> <<>>, locks |-> <<>>, logged |-> 0,
     after |-> "None", failed |-> FALSE]

\* A message that handle_reports hands to a report handler
IsReportCommand(msg) ==
    msg.before = "Report" /\ msg.text.some /\ msg.text.value \in ReportCommands

\* What is kept of a report command: the current server, the time, the
\* authentication requests sent, and whether the remote issued a token
Report(msg) ==
    [at |-> msg.at, server |-> msg.server,
     auths |-> Cardinality({i \in 1..Len(msg.requests) :
                               msg.requests[i].request.endpoint = "auth"}),
     obtained |-> \E i \in 1..Len(msg.requests) :
                     /\ msg.requests[i].request.endpoint = "auth"
                     /\ msg.requests[i].request.outcome = "ok"]

NoReport ==
    [value |-> [at |-> 0, server |-> "", auths |-> 0, obtained |-> FALSE],
     some |-> FALSE]

\* The mutexes of DependenciesForDispatcher
Mutexes == {"servers", "olap_store", "allowed_list"}

\* No handler is running
LocksIdle ==
    /\ tasks = [chat \in Chats |-> <<>>]
    /\ owner = [mutex \in Mutexes |-> 0]

\* The steps a handler takes on the mutexes, from its i-th lock() on, with
\* `held` the guards it holds: it drops the guards that it no longer holds
\* at the next lock(), takes the mutex, and drops what is left at its end.
RECURSIVE Script(_, _, _)
Script(locks, i, held) ==
    LET dropped == IF i > Len(locks) THEN held ELSE held \ locks[i].held
        unlock == IF dropped = {} THEN <<>>
                  ELSE <<[op |-> "unlock", mutexes |-> dropped]>>
    IN  IF i > Len(locks) THEN unlock
        ELSE unlock \o <<[op |-> "lock", mutexes |-> {locks[i].mutex}]>>
                    \o Script(locks, i + 1,
                              locks[i].held \cup {locks[i].mutex})

\* initialise: the allow-list is the accounts of the file, current is the
\* first key of a HashMap, every dialogue starts at State::None
BotInit ==
    /\ dialogue = [chat \in Chats |-> "None"]
    /\ allowed_list = <<Alice>>
    /\ accounts = File(<<Alice>>)
    /\ servers \in {[current |-> first, map |-> ServerMap] :
                        first \in DOMAIN ServerMap}
    /\ olap_store = EmptyMap
    /\ lastMsg = NoMsg
    /\ lastReport = NoReport
    /\ fetched = [chat \in Chats |-> EmptyMap]
    /\ LocksIdle

\* The handler wrote to the OLAP store (handle_olap: the only handler that
\* locks it to write)
Stores(ctx) ==
    \E i \in 1..Len(ctx.locks) : ctx.locks[i].mutex = "olap_store"

\* One message from `username` with `text` in `chat`, handled by
\* handle_states to its end.
Message(chat, username, text, failAt, remote, file) ==
    \E before \in {dialogue[chat]},
       ctx \in {HandleStates(Context(chat, username, text, failAt, remote,
                                     file))} :
        /\ ctx.issued <= MaxIssued
        /\ ctx.accounts.ok => Len(ctx.accounts.list) <= MaxAccounts
        /\ Len(ctx.allowed) <= MaxAccounts
        /\ dialogue' = [dialogue EXCEPT ![chat] = ctx.state]
        /\ allowed_list' = ctx.allowed
        /\ accounts' = ctx.accounts
        /\ servers' = [servers EXCEPT !.current = ctx.current]
        /\ olap_store' = ctx.olap
        /\ token' = ctx.server.token
        /\ issued' = ctx.issued
        /\ lastMsg' = Handled(before, servers.current, ctx)
        /\ lastReport' = IF IsReportCommand(lastMsg)
                         THEN Some(Report(lastMsg)) ELSE lastReport
        /\ fetched' = IF before = "Report" /\ Stores(ctx)
                      THEN [fetched EXCEPT ![chat] = ctx.olap] ELSE fetched
        /\ UNCHANGED <<now, lastCall>>
        /\ UNCHANGED <<shiftVars, olapVars>>

\* The messages of a set of chats, senders and texts, answered from a set
\* of answers; where a name is asked for, the texts are those of `names`
Messages(chats, usernames, texts, names, failAts, remotes) ==
    \E chat \in chats, username \in usernames, failAt \in failAts :
        \E text \in IF dialogue[chat] = "AddUser" THEN names ELSE texts :
            \E remote \in RemotesFor(dialogue[chat], text) \cap remotes,
               file \in FilesFor(dialogue[chat]) :
                /\ Message(chat, username, text, failAt, remote, file)
                /\ UNCHANGED lockVars

\* The report commands of one allowed user in one chat, the server switched
\* between them or not, the bot API answering well
ReportTexts ==
    { Some(t) : t \in ReportCommands
                      \cup {Label.reports, Label.switch, Txt("second"),
                            Txt("Pizza")} }

\* In ReportSpec the remote answers well with the three shifts or with two
\* rows, or does not answer; its auth endpoint may answer with an error,
\* and so may its logout endpoint after a report that it served
ReportRemotes ==
    { r \in {NoRemote} \cup Remotes({SampleShifts}, {}) \cup OlapRemotes :
        /\ Len(r.rows) \in {0, 2}
        /\ r.auth \in {"ok", "server_error", "network_error"}
        /\ r.data \in {"ok", "network_error"}
        /\ \/ r.logout \in {"ok", "network_error"}
           \/ r.logout = "server_error" /\ r.auth = "ok" /\ r.data = "ok" }

ReportMessage ==
    Messages({1}, {Some(Alice)}, ReportTexts, {}, {0}, ReportRemotes)

\* Time passes between two messages, half a lifetime at a time
MaxWait == 1

Wait ==
    /\ now + Lifetime \div 2 <= MaxWait * (Lifetime \div 2)
    /\ now' = now + Lifetime \div 2
    /\ UNCHANGED <<token, issued, lastCall>>
    /\ UNCHANGED <<shiftVars, olapVars, botVars>>

ReportNext == ReportMessage \/ Wait

\* The messages of one chat: its senders, the texts of the keyboards and
\* others, the names given to add a user
Usernames == {NoText, Some(Root), Some(Alice), Some(Bob)}

Texts ==
    {NoText}
    \cup { Some(t) : t \in {Label.reports, Label.switch, Label.list,
                            Label.admin, Label.back, Label.add_user,
                            Label.delete_user, Label.list_users,
                            Label.list_admins, Txt("second"), Bob} }

Names ==
    {NoText}
    \cup { Some(t) : t \in {Txt(""), Bob, Text(1, "bob")} }

AnyMessage ==
    Messages({1}, Usernames, Texts, Names, 0..MaxApiCalls, {NoRemote})

Next == AnyMessage

\* The administration of the accounts by one admin: the way to the two
\* dialogues, the names to add (with "@" or without) and to delete, the
\* file system answering well or not
AdminTexts ==
    { Some(t) : t \in {Label.admin, Label.add_user, Label.delete_user,
                       Alice, Bob} }

AdminNames ==
    { Some(t) : t \in {Bob, Text(1, "bob"), Text(2, "bob"), Alice, Txt(""),
                       Text(1, "")} }

AdminMessage ==
    Messages({1}, {Some(Root)}, AdminTexts, AdminNames, {0}, {NoRemote})

AdminNext == AdminMessage

\* Two chats of an allowed user that switch the server and ask for the
\* week's sum in any order: the aliases given are two keys of the map and
\* one that is no key
SwitchTexts ==
    { Some(t) : t \in {Label.reports, Label.switch, Label.week, Txt("main"),
                       Txt("second"), Txt("third")} }

SwitchRemotes == {NoRemote, Remote("ok", "ok", "ok", SampleShifts, <<>>)}

SwitchMessage ==
    Messages(Chats, {Some(Alice)}, SwitchTexts, {}, {0}, SwitchRemotes)

SwitchNext == SwitchMessage

\* Two chats of an allowed user that ask for the OLAP report and choose a
\* category in any order, the remote answering with one dish of the
\* category or with another
CacheTexts == { Some(t) : t \in {Label.reports, Label.olap, Txt("Pizza")} }

CacheAnswers ==
    { a \in RowAnswers : a # <<>> /\ a[1].DishCategory = Some("Pizza") }

CacheRemotes ==
    {NoRemote} \cup { Remote("ok", "ok", "ok", <<>>, a) : a \in CacheAnswers }

CacheMessage ==
    Messages(Chats, {Some(Alice)}, CacheTexts, {}, {0}, CacheRemotes)

CacheNext == CacheMessage

\* Two chats of an admin that walk the menus at the same time: the switch
\* of the server, the OLAP report and its categories, the deletion of an
\* account. The handlers of different chats run concurrently, those of one
\* chat one after the other.
LockTexts ==
    { Some(t) : t \in {Label.switch, Txt("second"), Label.admin,
                       Label.delete_user, Label.reports, Label.olap} }

LockRemotes ==
    {NoRemote,
     Remote("ok", "ok", "ok", <<>>, <<OLAP(Some("Pizza"), <<"h">>, 0, 5)>>)}

\* The dispatcher hands a message of a chat to handle_states: the handler
\* is spawned, and has its steps on the mutexes before it
Start ==
    \E chat \in Chats, text \in LockTexts :
        \E remote \in RemotesFor(dialogue[chat], text) \cap LockRemotes :
            /\ tasks[chat] = <<>>
            /\ Message(chat, Some(Root), text, 0, remote, "ok")
            /\ tasks' = [tasks EXCEPT ![chat] = Script(lastMsg'.locks, 1, {})]
            /\ UNCHANGED owner

\* mutex.lock().await returns the guard: the mutex was free
Lock ==
    \E chat \in Chats, mutex \in Mutexes :
        /\ tasks[chat] # <<>>
        /\ Head(tasks[chat]) = [op |-> "lock", mutexes |-> {mutex}]
        /\ owner[mutex] = 0
        /\ owner' = [owner EXCEPT ![mutex] = chat]
        /\ tasks' = [tasks EXCEPT ![chat] = Tail(@)]
        /\ UNCHANGED <<dialogue, allowed_list, accounts, servers, olap_store,
                       lastMsg, lastReport, fetched>>
        /\ UNCHANGED <<sessVars, shiftVars, olapVars>>

\* Guards are dropped
Unlock ==
    \E chat \in Chats :
        /\ tasks[chat] # <<>>
        /\ Head(tasks[chat]).op = "unlock"
        /\ owner' = [mutex \in Mutexes |->
                        IF mutex \in Head(tasks[chat]).mutexes
                        THEN 0 ELSE owner[mutex]]
        /\ tasks' = [tasks EXCEPT ![chat] = Tail(@)]
        /\ UNCHANGED <<dialogue, allowed_list, accounts, servers, olap_store,
                       lastMsg, lastReport, fetched>>
        /\ UNCHANGED <<sessVars, shiftVars, olapVars>>

LockNext == Start \/ Lock \/ Unlock

\* Two chats of an admin that add and delete accounts at the same time.
\* The dispatcher runs the handlers of different chats concurrently, the
\* messages of one chat one after the other. A handler that has a name
\* takes its steps on the file one by one: each fs call is awaited, and the
\* handler of the other chat may run in between.
FileTexts ==
    { Some(t) : t \in {Label.admin, Label.add_user, Label.delete_user} }

FileNames == {Alice, Bob}

\* The block of the handler that holds the guard of the allow-list:
\* `if !accounts.contains(..) { accounts.push(..) }` of
\* handle_add_user_dialogue, `if accounts.contains(..) { accounts.retain(..) }`
\* of callback_delete_user
UnderGuard(list, change) ==
    IF change.push /\ Contains(list, change.account) THEN list
    ELSE Changed(list, change)

\* Where a handler is: the fs call it makes next (or "finish": what
\* follows the write), the change it makes, and its telegram_config.accounts
At(op, change, config) == [op |-> op, change |-> change, config |-> config]

\* A message on the way to one of the two dialogues, handled to its end
Navigate ==
    \E chat \in Chats, text \in FileTexts :
        /\ tasks[chat] = <<>>
        /\ dialogue[chat] \notin {"AddUser", "DeleteUser"}
        /\ Message(chat, Some(Root), text, 0, NoRemote, "ok")
        /\ UNCHANGED lockVars

\* handle_add_user_dialogue and callback_delete_user, from the message
\* with a name to the drop of the guard of the allow-list
Begin ==
    \E chat \in Chats, name \in FileNames :
        /\ tasks[chat] = <<>>
        /\ dialogue[chat] \in {"AddUser", "DeleteUser"}
        /\ LET change == IF dialogue[chat] = "AddUser"
                         THEN [push |-> TRUE, account |-> StripPrefix(name)]
                         ELSE [push |-> FALSE, account |-> name]
               removed == Contains(allowed_list, name)
               op == IF change.push \/ removed THEN "read" ELSE "finish"
           IN  /\ Len(UnderGuard(allowed_list, change)) <= MaxAccounts
               /\ allowed_list' = UnderGuard(allowed_list, change)
               /\ tasks' = [tasks EXCEPT ![chat] = <<At(op, change, <<>>)>>]
        /\ UNCHANGED <<dialogue, accounts, servers, olap_store, lastMsg,
                       lastReport, fetched, owner>>
        /\ UNCHANGED <<sessVars, shiftVars, olapVars>>

\* read_to_struct("/etc/iiko-bot/tg_cfg.toml").await? and the change of
\* telegram_config.accounts; a file that does not parse ends the handler
ReadToStruct ==
    \E chat \in Chats :
        /\ tasks[chat] # <<>>
        /\ Head(tasks[chat]).op = "read"
        /\ LET at == Head(tasks[chat])
               config == Changed(accounts.list, at.change)
           IN  IF accounts.ok
               THEN /\ Len(config) <= MaxAccounts
                    /\ tasks' = [tasks EXCEPT
                                    ![chat] = <<At("create", at.change, config)>>]
               ELSE tasks' = [tasks EXCEPT ![chat] = <<>>]
        /\ UNCHANGED <<dialogue, allowed_list, accounts, servers, olap_store,
                       lastMsg, lastReport, fetched, owner>>
        /\ UNCHANGED <<sessVars, shiftVars, olapVars>>

\* fs::File::create("/etc/iiko-bot/tg_cfg.toml").await?: the file is empty
FileCreate ==
    \E chat \in Chats :
        /\ tasks[chat] # <<>>
        /\ Head(tasks[chat]).op = "create"
        /\ accounts' = Truncated
        /\ tasks' = [tasks EXCEPT ![chat] = <<[Head(@) EXCEPT !.op = "write"]>>]
        /\ UNCHANGED <<dialogue, allowed_list, servers, olap_store, lastMsg,
                       lastReport, fetched, owner>>
        /\ UNCHANGED <<sessVars, shiftVars, olapVars>>

\* file.write_all(config.as_bytes()).await?
WriteAll ==
    \E chat \in Chats :
        /\ tasks[chat] # <<>>
        /\ Head(tasks[chat]).op = "write"
        /\ accounts' = File(Head(tasks[chat]).config)
        /\ tasks' = [tasks EXCEPT ![chat] = <<[Head(@) EXCEPT !.op = "finish"]>>]
        /\ UNCHANGED <<dialogue, allowed_list, servers, olap_store, lastMsg,
                       lastReport, fetched, owner>>
        /\ UNCHANGED <<sessVars, shiftVars, olapVars>>

\* dialogue.update(State::None), the confirmation and handle_start
Finish ==
    \E chat \in Chats :
        /\ tasks[chat] # <<>>
        /\ Head(tasks[chat]).op = "finish"
        /\ LET ctx == Context(chat, Some(Root), NoText, 0, NoRemote, "ok")
               end == HandleStart(SendMessage(Update(ctx, "None"),
                                              Msg("user added or deleted")))
           IN  dialogue' = [dialogue EXCEPT ![chat] = end.state]
        /\ tasks' = [tasks EXCEPT ![chat] = <<>>]
        /\ UNCHANGED <<allowed_list, accounts, servers, olap_store, lastMsg,
                       lastReport, fetched, owner>>
        /\ UNCHANGED <<sessVars, shiftVars, olapVars>>

FileNext ==
    Navigate \/ Begin \/ ReadToStruct \/ FileCreate \/ WriteAll \/ Finish

\* Two chats of an allowed user, one asking for a report while the other
\* switches the server. A report handler takes two steps: its
\* collect_server_info, and all that follows (the requests to the remote
\* are awaited, and the handler of the other chat may run before them).
LabelTexts ==
    { Some(t) : t \in {Label.reports, Label.switch, Txt("main"),
                       Txt("second")} }

LabelCommands == { Some(t) : t \in {Label.week, Label.today, Label.olap} }

LabelRemotes ==
    {Remote("ok", "ok", "ok", SampleShifts, <<>>),
     Remote("ok", "ok", "ok", <<>>, <<OLAP(Some("Pizza"), <<"h">>, 0, 5)>>)}

\* A message that is no report command, handled to its end
Talk ==
    \E chat \in Chats, text \in LabelTexts :
        /\ tasks[chat] = <<>>
        /\ Message(chat, Some(Alice), text, 0, NoRemote, "ok")
        /\ UNCHANGED lockVars

\* A report command in State::Report, up to the return of
\* collect_server_info: the handler has the alias that was current under the
\* guard of the servers (and, by it, the URL)
Collect ==
    \E chat \in Chats, text \in LabelCommands :
        /\ tasks[chat] = <<>>
        /\ dialogue[chat] = "Report"
        /\ tasks' = [tasks EXCEPT
                        ![chat] = <<[op |-> "report", text |-> text,
                                     current |-> servers.current]>>]
        /\ UNCHANGED <<dialogue, allowed_list, accounts, servers, olap_store,
                       lastMsg, lastReport, fetched, owner>>
        /\ UNCHANGED <<sessVars, shiftVars, olapVars>>

\* The rest of the report handler, with what collect_server_info returned:
\* the requests to the remote, the message, and what handle_reports does
\* after it. The handler does not write to the servers.
Fetch ==
    \E chat \in Chats :
        /\ tasks[chat] # <<>>
        /\ Head(tasks[chat]).op = "report"
        /\ \E remote \in RemotesFor("Report", Head(tasks[chat]).text)
                             \cap LabelRemotes,
              at \in {Head(tasks[chat])} :
             \E ctx \in {HandleStates(
                             [Context(chat, Some(Alice), at.text, 0, remote,
                                      "ok") EXCEPT !.current = at.current])} :
                 /\ ctx.issued <= MaxIssued
                 /\ dialogue' = [dialogue EXCEPT ![chat] = ctx.state]
                 /\ olap_store' = ctx.olap
                 /\ token' = ctx.server.token
                 /\ issued' = ctx.issued
                 /\ lastMsg' = Handled("Report", at.current, ctx)
                 /\ lastReport' = IF IsReportCommand(lastMsg)
                                  THEN Some(Report(lastMsg)) ELSE lastReport
                 /\ fetched' = IF Stores(ctx)
                               THEN [fetched EXCEPT ![chat] = ctx.olap]
                               ELSE fetched
        /\ tasks' = [tasks EXCEPT ![chat] = <<>>]
        /\ UNCHANGED <<allowed_list, accounts, servers, owner>>
        /\ UNCHANGED <<now, lastCall>>
        /\ UNCHANGED <<shiftVars, olapVars>>

LabelNext == Talk \/ Collect \/ Fetch

-----------------------------------------------------------------------------
(* The specifications *)

\* The parts of the state a specification does not use stay as they start.
SessionIdle == token = NoToken /\ now = 0 /\ issued = 0 /\ lastCall = NoCall
ShiftIdle ==
    shifts = <<>> /\ offset = 0 /\ shiftOut = NoShiftOut /\ DatesIdle

OlapIdle ==
    /\ olapData = <<>> /\ olapOut = NoOlapOut
    /\ wrapIn = NoWrapIn /\ wrapOut = NoWrapOut

BotIdle ==
    /\ dialogue = [chat \in Chats |-> "None"]
    /\ allowed_list = <<>>
    /\ accounts = File(<<>>)
    /\ servers = [current |-> "main", map |-> ServerMap]
    /\ olap_store = EmptyMap
    /\ lastMsg = NoMsg
    /\ lastReport = NoReport
    /\ fetched = [chat \in Chats |-> EmptyMap]
    /\ LocksIdle

SessionSpecInit == SessionInit /\ ShiftIdle /\ OlapIdle /\ BotIdle
SessionSpec == SessionSpecInit /\ [][SessionNext]_vars

ShiftSpecInit == ShiftInit /\ SessionIdle /\ OlapIdle /\ BotIdle
ShiftSpec == ShiftSpecInit /\ [][ShiftNext]_vars

DateSpecInit ==
    /\ DateInit
    /\ shifts = <<>> /\ offset = 0 /\ shiftOut = NoShiftOut
    /\ SessionIdle /\ OlapIdle /\ BotIdle
DateSpec == DateSpecInit /\ [][DateNext]_vars

OlapSpecInit ==
    /\ OlapInit /\ wrapIn = NoWrapIn /\ wrapOut = NoWrapOut
    /\ SessionIdle /\ ShiftIdle /\ BotIdle
OlapSpec == OlapSpecInit /\ [][OlapNext]_vars

WrapSpecInit ==
    /\ WrapInit /\ olapData = <<>> /\ olapOut = NoOlapOut
    /\ SessionIdle /\ ShiftIdle /\ BotIdle
WrapSpec == WrapSpecInit /\ [][WrapNext]_vars

ReportSpecInit == BotInit /\ SessionIdle /\ ShiftIdle /\ OlapIdle
ReportSpec == ReportSpecInit /\ [][ReportNext]_vars

AdminSpecInit == BotInit /\ SessionIdle /\ ShiftIdle /\ OlapIdle
AdminSpec == AdminSpecInit /\ [][AdminNext]_vars

SwitchSpecInit == BotInit /\ SessionIdle /\ ShiftIdle /\ OlapIdle
SwitchSpec == SwitchSpecInit /\ [][SwitchNext]_vars

CacheSpecInit == BotInit /\ SessionIdle /\ ShiftIdle /\ OlapIdle
CacheSpec == CacheSpecInit /\ [][CacheNext]_vars

LockSpecInit == BotInit /\ SessionIdle /\ ShiftIdle /\ OlapIdle
LockSpec == LockSpecInit /\ [][LockNext]_vars

FileSpecInit == BotInit /\ SessionIdle /\ ShiftIdle /\ OlapIdle
FileSpec == FileSpecInit /\ [][FileNext]_vars

LabelSpecInit == BotInit /\ SessionIdle /\ ShiftIdle /\ OlapIdle
LabelSpec == LabelSpecInit /\ [][LabelNext]_vars

SpecInit == BotInit /\ SessionIdle /\ ShiftIdle /\ OlapIdle
Spec == SpecInit /\ [][Next]_vars

-----------------------------------------------------------------------------
(* The session manager's claims, under SessionSpec *)

\* The requests of the last call sent to `endpoint`
RequestsTo(endpoint) ==
    { i \in 1..Len(lastCall.requests) : lastCall.requests[i].endpoint = endpoint }

\* The age at the last call of the token cached before it
AgeBefore == lastCall.at - lastCall.before.creation_time

\* C1 as stated: a get_token call on a Server holding a token from an
\* earlier successful call returns that same token id without an
\* authentication request while the token's age is below the 3600 s
\* lifetime, and once the age has reached the lifetime it sends exactly one
\* authentication request and replaces the cached token.
C1_Original ==
    (lastCall.op = "get_token" /\ lastCall.before # NoToken) =>
        IF AgeBefore < Lifetime
        THEN /\ lastCall.ok
             /\ lastCall.value = lastCall.before.id
             /\ RequestsTo("auth") = {}
             /\ token = lastCall.before
        ELSE /\ Cardinality(RequestsTo("auth")) = 1
             /\ token # lastCall.before

\* C1 amended: as C1_Original, but the cached token is replaced only when
\* the authentication request is answered; when it fails on the network
\* the call returns an error and the cache keeps the expired token.
C1_TokenCache ==
    (lastCall.op = "get_token" /\ lastCall.before # NoToken) =>
        IF AgeBefore < Lifetime
        THEN /\ lastCall.ok
             /\ lastCall.value = lastCall.before.id
             /\ RequestsTo("auth") = {}
             /\ token = lastCall.before
        ELSE /\ Cardinality(RequestsTo("auth")) = 1
             /\ Len(lastCall.requests) = 1
             /\ IF lastCall.requests[1].outcome = "network_error"
                THEN ~lastCall.ok /\ token = lastCall.before
                ELSE /\ lastCall.ok
                     /\ token # lastCall.before
                     /\ token.creation_time = lastCall.at
                     /\ lastCall.value = token.id

\* A get_token call made with an expired token in the cache has replaced it.
C1_Witness ==
    /\ lastCall.op = "get_token"
    /\ lastCall.before # NoToken
    /\ AgeBefore >= Lifetime
    /\ lastCall.ok
    /\ token.id.kind = "token"
    /\ token.id # lastCall.before.id

\* C2: every request to the shift listing, the OLAP report or logout carries
\* a token that is present and whose age when the request is sent is below
\* its lifetime.
C2_NoStaleTokenSent ==
    \A i \in 1..Len(lastCall.requests) :
        LET r == lastCall.requests[i] IN
        r.endpoint \in {"list", "olap", "logout"} =>
            /\ r.key # NoToken
            /\ r.at - r.key.creation_time < r.key.lifetime

\* A listing was requested with a cached token one clock step short of its
\* lifetime.
C2_Witness ==
    /\ lastCall.op = "list_shifts"
    /\ RequestsTo("list") # {}
    /\ RequestsTo("auth") = {}
    /\ AgeBefore = Lifetime - ClockStep

\* C4 as stated: a call whose authentication request fails on the network or
\* is answered with a 4xx or 5xx status returns an error and caches no
\* token: the body of such an answer is never stored or returned as a token.
C4_AuthFailureIsError ==
    \A i \in RequestsTo("auth") :
        lastCall.requests[i].outcome # "ok" =>
            /\ ~lastCall.ok
            /\ token.id.kind # "error_body"
            /\ lastCall.value.kind # "error_body"

\* C5 as stated: deauth with a cached, unexpired token calls logout exactly
\* once with that token and leaves the cache empty; with no token or an
\* expired one it sends nothing, returns success and leaves the cache empty.
C5_Release ==
    lastCall.op = "deauth" =>
        IF IsAuthenticated(lastCall.before, lastCall.at)
        THEN /\ Cardinality(RequestsTo("logout")) = 1
             /\ Len(lastCall.requests) = 1
             /\ lastCall.requests[1].key = lastCall.before
             /\ token = NoToken
        ELSE /\ lastCall.requests = <<>>
             /\ lastCall.ok
             /\ token = NoToken

-----------------------------------------------------------------------------
(* The shift service's claims, under ShiftSpec *)

\* C6: latest_shift(shifts, offset) returns shifts[len-1-offset] (counting
\* from 0) when offset < len, and an error when offset >= len, the empty
\* list included.
C6_LatestShift ==
    shiftOut.op = "latest_shift" =>
        IF offset < Len(shifts)
        THEN shiftOut.result = ShiftOk(shifts[Len(shifts) - offset])
        ELSE shiftOut.result = ShiftErr

\* Offset 1 of three shifts is the second one.
C6_Witness ==
    /\ shiftOut.op = "latest_shift"
    /\ Len(shifts) = 3
    /\ offset = 1
    /\ shiftOut.result.ok
    /\ shiftOut.result.shift.session_number = 2

\* The sum of a sequence of numbers, in the integers
RECURSIVE ArithSum(_)
ArithSum(s) == IF s = <<>> THEN 0 ELSE Head(s) + ArithSum(Tail(s))

PayOrders(list) == [i \in 1..Len(list) |-> list[i].pay_orders]

\* The permutations of 1..n
Perms(n) == { f \in [1..n -> 1..n] : \A i, j \in 1..n : f[i] = f[j] => i = j }

\* C7 as stated: sum_shifts of the empty list is 0, sum_shifts of any list is
\* the arithmetic sum of its pay_orders, and every permutation of the list
\* has the same sum_shifts.
C7_Original ==
    shiftOut.op = "sum_shifts" =>
        /\ shifts = <<>> => shiftOut.sum = 0
        /\ shiftOut.sum = ArithSum(PayOrders(shifts))
        /\ \A f \in Perms(Len(shifts)) :
              SumShifts([i \in 1..Len(shifts) |-> shifts[f[i]]]) = shiftOut.sum

\* C7 amended: sum_shifts of the empty list is 0; for a list whose sum stays
\* within the significand (so that no partial sum is rounded) sum_shifts is
\* the arithmetic sum of its pay_orders and the same for every permutation.
C7_SumShifts ==
    shiftOut.op = "sum_shifts" =>
        /\ shifts = <<>> => shiftOut.sum = 0
        /\ ArithSum(PayOrders(shifts)) < Pow2(MantBits) =>
              /\ shiftOut.sum = ArithSum(PayOrders(shifts))
              /\ \A f \in Perms(Len(shifts)) :
                    SumShifts([i \in 1..Len(shifts) |-> shifts[f[i]]])
                        = shiftOut.sum

\* The shifts 100, 250 and 75 sum to 425.
C7_Witness ==
    /\ shiftOut.op = "sum_shifts"
    /\ PayOrders(shifts) = <<100, 250, 75>>
    /\ shiftOut.sum = 425

-----------------------------------------------------------------------------
(* The OLAP service's claims, under OlapSpec *)

\* The group a row belongs to
KeyOf(row) == IF row.DishCategory.some THEN row.DishCategory.value ELSE Sentinel

\* The rows of `data` that belong to group k, in their order, as elements
RowsOf(data, k) ==
    LET InGroup(row) == KeyOf(row) = k
        rows == SelectSeq(data, InGroup)
    IN  [i \in 1..Len(rows) |-> OlapElement(rows[i])]

RECURSIVE TotalLen(_, _)
TotalLen(map, keys) ==
    IF keys = {} THEN 0
    ELSE LET k == CHOOSE x \in keys : TRUE IN
         Len(map[k]) + TotalLen(map, keys \ {k})

\* C8: the map get_olap returns has one group per category that occurs in
\* the answer (the sentinel standing for a missing category), each group
\* holds exactly the rows of its category in their order of arrival, no
\* group is empty and the groups together hold as many rows as the answer.
C8_Grouping ==
    (olapOut.op = "get_olap" /\ olapOut.ok) =>
        /\ DOMAIN olapOut.map = { KeyOf(olapData[i]) : i \in 1..Len(olapData) }
        /\ \A k \in DOMAIN olapOut.map :
              /\ olapOut.map[k] = RowsOf(olapData, k)
              /\ olapOut.map[k] # <<>>
        /\ TotalLen(olapOut.map, DOMAIN olapOut.map) = Len(olapData)

\* An answer with rows of a named category and several rows without one.
C8_Witness ==
    /\ olapOut.op = "get_olap"
    /\ olapOut.ok
    /\ Cardinality(DOMAIN olapOut.map) >= 2
    /\ Sentinel \in DOMAIN olapOut.map
    /\ Len(olapOut.map[Sentinel]) >= 2
    /\ \E i \in 1..Len(olapData) : ~olapData[i].DishCategory.some

\* The elements display_olap is given in OlapSpec
Elements == [i \in 1..Len(olapData) |-> OlapElement(olapData[i])]

\* Where a stable descending order by GuestNum puts element i
Rank(elements, i) ==
    1 + Cardinality({ j \in 1..Len(elements) :
                        \/ elements[j].GuestNum > elements[i].GuestNum
                        \/ /\ elements[j].GuestNum = elements[i].GuestNum
                           /\ j < i })

\* The rows a table of `elements` is to show
TopByGuests(elements) ==
    [k \in 1..Min(Len(elements), MaxDisplayed) |->
        elements[CHOOSE i \in 1..Len(elements) : Rank(elements, i) = k]]

\* The first lines of the rows of a table: those that carry the two numbers
IsFirstLine(line) == line.kind = "data" /\ line.fields[1] # <<>>
RowsShown(table) == SelectSeq(table.lines, IsFirstLine)

ShowsTop(table, elements) ==
    LET shown == RowsShown(table)
        top == TopByGuests(elements)
    IN  /\ Len(shown) = Len(top)
        /\ \A k \in 1..Len(top) :
              shown[k].fields = <<to_string(top[k].DishDiscountSumInt),
                                  to_string(top[k].GuestNum)>>

\* C9 as stated: for every non-empty row set display_olap returns a table
\* that shows min(n, 20) rows, the rows with the highest guest counts in
\* descending order, rows of equal guest count in their original order.
C9_SortedTop ==
    (olapOut.op = "display_olap" /\ olapData # <<>>) =>
        /\ ~olapOut.table.panicked
        /\ ShowsTop(olapOut.table, Elements)

\* Every name of the elements has a word, and none a word the name column
\* cannot hold.
Renderable(elements) ==
    \A i \in 1..Len(elements) :
        LET words == SplitWhitespace(elements[i].DishName) IN
        /\ words # <<>>
        /\ \A w \in 1..Len(words) : Len(words[w]) <= NameCap + 1

\* For such elements the table does show the rows C9 names.
SortedTopWhenRenderable ==
    (olapOut.op = "display_olap" /\ Renderable(Elements)) =>
        /\ ~olapOut.table.panicked
        /\ ShowsTop(olapOut.table, Elements)

\* C10 as stated: for every non-empty row set, no padding of display_olap
\* goes negative and every line of the table (borders, header, data and
\* continuation lines) is as wide as the top border.
C10_EqualWidth ==
    (olapOut.op = "display_olap" /\ olapData # <<>>) =>
        /\ ~olapOut.table.panicked
        /\ \A i \in 1..Len(olapOut.table.lines) :
              olapOut.table.lines[i].kind # "fence" =>
                  Len(olapOut.table.lines[i].text)
                      = Len(olapOut.table.lines[2].text)

\* When nothing underflows the lines are of equal width.
EqualWidthUnlessPanicked ==
    (olapOut.op = "display_olap" /\ ~olapOut.table.panicked) =>
        \A i \in 1..Len(olapOut.table.lines) :
            olapOut.table.lines[i].kind # "fence" =>
                Len(olapOut.table.lines[i].text)
                    = Len(olapOut.table.lines[2].text)

-----------------------------------------------------------------------------
(* The sessions of the report commands, under ReportSpec *)

\* The case of C3: two report commands handled one after the other against
\* the same current server, the second starting within the lifetime of the
\* token the first obtained.
SecondWithinLifetime ==
    /\ IsReportCommand(lastMsg)
    /\ lastReport.some
    /\ lastReport.value.server = lastMsg.server
    /\ lastReport.value.obtained
    /\ lastMsg.at - lastReport.value.at < Lifetime

-----------------------------------------------------------------------------
(* The wrapping of a dish name, under WrapSpec *)

\* The words of the lines of wrap_text, in the order of the lines
RECURSIVE WordsOfLines(_)
WordsOfLines(lines) ==
    IF lines = <<>> THEN <<>>
    ELSE SplitWhitespace(Head(lines)) \o WordsOfLines(Tail(lines))

\* C11: once wrap_text(text, width) has returned, the words of its lines,
\* read in order, are the whitespace-separated words of the text in order;
\* a line after the first starts with a word that did not fit on the line
\* before it (that line, a space and the word are more than width
\* characters); and a line of more than one word has at most width
\* characters.
C11_WrapText ==
    wrapOut.called =>
        LET lines == wrapOut.lines
            width == wrapIn.width
        IN  /\ WordsOfLines(lines) = SplitWhitespace(wrapIn.text)
            /\ \A k \in 2..Len(lines) :
                   Len(lines[k - 1]) + 1 + Len(Head(SplitWhitespace(lines[k])))
                       > width
            /\ \A k \in 1..Len(lines) :
                   Len(SplitWhitespace(lines[k])) > 1 => Len(lines[k]) <= width

\* wrap_text has returned two lines or more, one of them of two words that
\* fill the width, for a text of MaxText characters.
C11_Witness ==
    /\ wrapOut.called
    /\ Len(wrapOut.lines) >= 2
    /\ \E k \in 1..Len(wrapOut.lines) :
           /\ Len(SplitWhitespace(wrapOut.lines[k])) = 2
           /\ Len(wrapOut.lines[k]) = wrapIn.width
    /\ Len(wrapIn.text) = MaxText

-----------------------------------------------------------------------------
(* The conversation engine's claims, under Spec.  A step of Spec is one    *)
(* message handled: the unprimed variables are the state the message       *)
(* arrived in, lastMsg' is the message and what its handler did.  The chat *)
(* transport is taken to deliver where a claim is about what the operator  *)
(* is shown: ~lastMsg'.failed says that no call of the bot API failed.     *)

\* The sender has a handle that is in the allow-list or in the admin-list
Authorized(list, username) ==
    username.some /\ (IsAllowed(list, username.value) \/ IsAdmin(username.value))

\* The handler sent a message of this kind
Sent(msg, kind) ==
    \E i \in 1..Len(msg.calls) :
        msg.calls[i].method = "send_message" /\ msg.calls[i].body.kind = kind

\* C12: every chat starts in State::None, and a message (with a text or
\* without) that arrives in State::None from a sender whose handle is in
\* the allow-list or the admin-list gets the main menu sent and leaves the
\* chat in State::Dialogue, the bot API delivering.
C12_Entry ==
    /\ \A chat \in Chats : dialogue[chat] = "None"
    /\ [][(/\ lastMsg'.before = "None"
           /\ Authorized(allowed_list, lastMsg'.username)
           /\ ~lastMsg'.failed)
              => /\ Sent(lastMsg', "main menu")
                 /\ lastMsg'.after = "Dialogue"
                 /\ dialogue'[lastMsg'.chat] = "Dialogue"]_vars

\* An allowed user who is no admin has entered from State::None
C12_Witness ==
    /\ lastMsg.before = "None"
    /\ lastMsg.username = Some(Alice)
    /\ IsAllowed(allowed_list, Alice) /\ ~IsAdmin(Alice)
    /\ ~lastMsg.failed
    /\ Sent(lastMsg, "main menu")
    /\ dialogue[lastMsg.chat] = "Dialogue"

\* C13: in every dialogue state, a message whose sender is, when it
\* arrives, in neither the allow-list nor the admin-list (or has no handle)
\* leaves the dialogue states as they are, sends no request to the remote,
\* and changes neither the current server, nor the allow-list, nor the OLAP
\* store.
C13_AccessControl ==
    [][~Authorized(allowed_list, lastMsg'.username)
          => /\ dialogue' = dialogue
             /\ lastMsg'.requests = <<>>
             /\ servers' = servers
             /\ allowed_list' = allowed_list
             /\ olap_store' = olap_store]_vars

\* The inputs a dialogue state recognises: the labels of its keyboard, the
\* keys it looks the text up in, a name to add
Recognised(state, text) ==
    IF state = "Dialogue"
    THEN text \in {Label.reports, Label.switch, Label.list, Label.admin}
    ELSE IF state = "Report"
    THEN text \in ReportCommands \cup {Label.back}
    ELSE IF state = "Admin"
    THEN text \in {Label.add_user, Label.delete_user, Label.list_users,
                   Label.list_admins, Label.back}
    ELSE IF state = "Switch" THEN HasKey(ServerMap, text)
    ELSE IF state = "Olap" THEN HasKey(olap_store, text)
    ELSE IF state = "AddUser" THEN ~IsEmpty(text)
    ELSE IF state = "DeleteUser" THEN Contains(allowed_list, text)
    ELSE FALSE

\* A message with a text its dialogue state does not recognise, from a
\* sender in the allow-list or the admin-list, the bot API delivering
Unrecognised(msg) ==
    /\ Authorized(allowed_list, msg.username)
    /\ msg.text.some
    /\ ~Recognised(msg.before, msg.text.value)
    /\ ~msg.failed

\* C17: in every dialogue state, a text the state does not recognise, from
\* an authorized sender, gets the main menu sent and leaves the chat in
\* State::Dialogue.
C17_Fallback ==
    [][Unrecognised(lastMsg')
          => /\ Sent(lastMsg', "main menu")
             /\ dialogue'[lastMsg'.chat] = "Dialogue"]_vars

\* What the code does: the fallback is there in State::None, Dialogue,
\* Switch, Olap and DeleteUser; State::Report and State::Admin ignore the
\* text and stay.
FallbackButInMenus ==
    [][Unrecognised(lastMsg')
          => IF lastMsg'.before \in {"Report", "Admin"}
             THEN /\ lastMsg'.calls = <<>>
                  /\ dialogue' = dialogue
             ELSE lastMsg'.before # "AddUser"
                     => /\ Sent(lastMsg', "main menu")
                        /\ dialogue'[lastMsg'.chat] = "Dialogue"]_vars

-----------------------------------------------------------------------------
(* The allow-list, under AdminSpec *)

NoDuplicates(list) ==
    \A i, j \in 1..Len(list) : list[i] = list[j] => i = j

Count(list, x) == Cardinality({i \in 1..Len(list) : list[i] = x})

\* C14: the allow-list, without duplicates at the start, never holds an
\* account twice, whatever is added and deleted; and a name given in
\* State::AddUser, with one leading "@" or without, is in the allow-list
\* afterwards without the "@", appended if it was not there and the list
\* left as it was if it was.
C14_Idempotent ==
    /\ []NoDuplicates(allowed_list)
    /\ [][(/\ lastMsg'.before = "AddUser"
           /\ lastMsg'.text.some
           /\ lastMsg'.text.value.at <= 1
           /\ lastMsg'.text.value.rest # "")
              => LET handle == Txt(lastMsg'.text.value.rest) IN
                 allowed_list' = IF Contains(allowed_list, handle)
                                 THEN allowed_list
                                 ELSE Append(allowed_list, handle)]_vars

\* "@bob" was given after bob had been added: the file has the account
\* twice, the allow-list once.
C14_Witness ==
    /\ lastMsg.before = "AddUser"
    /\ lastMsg.text = Some(Text(1, "bob"))
    /\ accounts.ok /\ Count(accounts.list, Bob) = 2
    /\ Count(allowed_list, Bob) = 1

-----------------------------------------------------------------------------
(* The report menu, under ReportSpec *)

\* The remote answered every request of the handler well
Answered(msg) ==
    \A i \in 1..Len(msg.requests) : msg.requests[i].request.outcome = "ok"

Requested(msg, endpoint) ==
    \E i \in 1..Len(msg.requests) :
        msg.requests[i].request.endpoint = endpoint

\* The OLAP report was asked for in State::Report and the remote answered
\* with no rows
EmptyOlapFetched ==
    /\ lastMsg.before = "Report"
    /\ lastMsg.text = Some(Label.olap)
    /\ Requested(lastMsg, "olap") /\ Answered(lastMsg)
    /\ olap_store = EmptyMap

\* C15: when the OLAP report is asked for in State::Report and the fetch
\* succeeds with zero rows, "nothing found" is sent, the chat does not
\* enter State::Olap, and the chat is back at the main menu: the main menu
\* is sent and the chat is in State::Dialogue.
C15_EmptyOlap ==
    EmptyOlapFetched
        => /\ Sent(lastMsg, "nothing found")
           /\ lastMsg.after # "Olap"
           /\ Sent(lastMsg, "main menu")
           /\ lastMsg.after = "Dialogue"

\* What handle_olap does with zero rows: "nothing found" and nothing else
\* is sent, and the chat stays in State::Report.
EmptyOlapStaysInReport ==
    EmptyOlapFetched
        => /\ Sent(lastMsg, "nothing found")
           /\ Len(lastMsg.calls) = 1
           /\ lastMsg.after = "Report"

\* A shift report was asked for in State::Report and came about: the
\* remote answered every request well and listed a shift at the offset
\* asked for (today: one shift or more, yesterday: two or more)
ShiftReportSucceeded ==
    /\ lastMsg.before = "Report"
    /\ lastMsg.text.some /\ lastMsg.text.value \in ShiftCommands
    /\ Requested(lastMsg, "list") /\ Answered(lastMsg)
    /\ lastMsg.text.value = Label.today => Len(lastMsg.remote.shifts) >= 1
    /\ lastMsg.text.value = Label.yesterday => Len(lastMsg.remote.shifts) >= 2

ResultKinds ==
    {"current shift", "previous shift", "sum of the last 7 days",
     "sum of the month"}

-----------------------------------------------------------------------------
(* The registry of the servers, under SwitchSpec *)

\* C18: the current alias is always a key of the map of the servers; no
\* message changes the map; and the current alias changes only when a
\* chat in State::Switch gives a key of the map, to that key.
C18_Registry ==
    /\ [](servers.current \in DOMAIN servers.map)
    /\ [][/\ servers'.map = servers.map
          /\ servers'.current # servers.current
                => /\ lastMsg'.before = "Switch"
                   /\ lastMsg'.text.some
                   /\ HasKey(servers.map, lastMsg'.text.value)
                   /\ servers'.current = lastMsg'.text.value.rest]_vars

\* Chat 2 has switched the server while chat 1 is in the report menu, a
\* report on the server before having been sent.
C18_Witness ==
    /\ lastMsg.chat = 2
    /\ lastMsg.before = "Switch"
    /\ servers.current # lastMsg.server
    /\ dialogue[1] = "Report"
    /\ lastReport.some /\ lastReport.value.server = lastMsg.server

-----------------------------------------------------------------------------
(* The OLAP store, under CacheSpec *)

\* A chat in State::Olap chooses a category of the report it asked for
\* last, one that display_olap can render, the bot API delivering
OwnCategoryChosen(msg) ==
    /\ msg.before = "Olap"
    /\ msg.text.some
    /\ HasKey(fetched[msg.chat], msg.text.value)
    /\ ~DisplayOlap(fetched[msg.chat][msg.text.value.rest]).panicked
    /\ ~msg.failed

\* C19: the table sent to a chat that chooses a category in State::Olap
\* is the table of that category in the report the same chat asked for
\* last, whatever reports other chats asked for in between.
C19_PerChat ==
    [][OwnCategoryChosen(lastMsg')
          => \E i \in 1..Len(lastMsg'.calls) :
                 /\ lastMsg'.calls[i].body.kind = "table"
                 /\ lastMsg'.calls[i].body.lines
                      = DisplayOlap(fetched[lastMsg'.chat]
                                         [lastMsg'.text.value.rest]).lines]_vars

\* What the code does: the table is that of the report asked for last by
\* any chat.
TableOfTheOneStore ==
    [][(/\ lastMsg'.before = "Olap" /\ lastMsg'.text.some
        /\ HasKey(olap_store, lastMsg'.text.value)
        /\ ~DisplayOlap(olap_store[lastMsg'.text.value.rest]).panicked
        /\ ~lastMsg'.failed)
          => \E i \in 1..Len(lastMsg'.calls) :
                 /\ lastMsg'.calls[i].body.kind = "table"
                 /\ lastMsg'.calls[i].body.lines
                      = DisplayOlap(olap_store[lastMsg'.text.value.rest]).lines]_vars

-----------------------------------------------------------------------------
(* Failures of the remote, under ReportSpec *)

\* A remote call of the handler failed: the transport gave up on it or the
\* remote answered with an error status
RemoteCallFailed(msg) ==
    \E i \in 1..Len(msg.requests) : msg.requests[i].request.outcome # "ok"

\* A remote call of the handler came back to it as an Err: the transport
\* gave up on it, or the answer to the listing or to the OLAP request was
\* not the JSON expected
RemoteCallErr(msg) ==
    \E i \in 1..Len(msg.requests) :
        LET request == msg.requests[i].request
        IN  \/ request.outcome = "network_error"
            \/ request.endpoint \in {"list", "olap"} /\ request.outcome # "ok"

\* C21: when a remote call of a report command (auth, listing, OLAP,
\* logout) times out or fails, the chat is in State::Report after the
\* handler as it was before, the OLAP store and the servers are unchanged,
\* and so the same command is taken again.
C21_RemoteFailure ==
    [][IsReportCommand(lastMsg') /\ RemoteCallFailed(lastMsg')
          => /\ lastMsg'.after = "Report"
             /\ dialogue' = dialogue
             /\ olap_store' = olap_store
             /\ servers' = servers]_vars

\* The logout was answered with an error status after a report that the
\* remote served: the report is sent and the chat leaves State::Report
LogoutErrorIgnored ==
    /\ IsReportCommand(lastMsg)
    /\ \E i \in 1..Len(lastMsg.requests) :
           /\ lastMsg.requests[i].request.endpoint = "logout"
           /\ lastMsg.requests[i].request.outcome = "server_error"
    /\ \A i \in 1..Len(lastMsg.requests) :
           lastMsg.requests[i].request.endpoint # "logout"
               => lastMsg.requests[i].request.outcome = "ok"
    /\ lastMsg.calls # <<>>
    /\ lastMsg.after = "Dialogue"

\* What the code does: the same, for the calls that come back as an Err
ErrKeepsReportState ==
    [][IsReportCommand(lastMsg') /\ RemoteCallErr(lastMsg')
          => /\ lastMsg'.after = "Report"
             /\ dialogue' = dialogue
             /\ olap_store' = olap_store
             /\ servers' = servers
             /\ lastMsg'.calls = <<>>]_vars

\* An error of the service layer came to handle_states from the handler of
\* a report command and was printed there, every call of the bot API having
\* gone through
ServiceErrorCaught(msg) ==
    /\ IsReportCommand(msg)
    /\ msg.logged > 0
    /\ ~msg.failed

\* C22: when an error of the service layer (a failed authentication, a
\* failed or unparsable report answer, a shift offset beyond the shifts
\* listed) comes to the dispatch boundary, a message is sent to the chat
\* that gave the command; the error is never only logged.
C22_FailureNotice ==
    ServiceErrorCaught(lastMsg)
        => \E i \in 1..Len(lastMsg.calls) :
               lastMsg.calls[i].method = "send_message"

\* What the code does: the error is printed and the chat hears nothing
ErrorOnlyLogged ==
    ServiceErrorCaught(lastMsg)
        => /\ lastMsg.calls = <<>>
           /\ lastMsg.logged = 1
           /\ lastMsg.after = "Report"

\* The listing came without a shift and the shift of today was asked for
NoShiftToShow ==
    /\ ServiceErrorCaught(lastMsg)
    /\ Answered(lastMsg) /\ Requested(lastMsg, "logout")
    /\ lastMsg.text.value = Label.today

-----------------------------------------------------------------------------
(* The choice of the server, under SwitchSpec *)

\* A chat in State::Switch gave a text, the bot API delivering
AliasGiven(msg) ==
    /\ msg.before = "Switch"
    /\ msg.text.some
    /\ ~msg.failed

\* The messages of handle_start: the commands and the main menu
StartKinds == {"commands", "main menu"}

\* C23: in State::Switch a text that is a key of the map of the servers
\* becomes the current alias and is confirmed before the main menu; a text
\* that is no key leaves the current alias as it is and is answered with
\* an error message (one that lists the aliases).
C23_Switch ==
    [][AliasGiven(lastMsg') =>
          LET data == lastMsg'.text.value
              calls == lastMsg'.calls
          IN  IF HasKey(servers.map, data)
              THEN /\ servers'.current = data.rest
                   /\ \E i, j \in 1..Len(calls) :
                          /\ i < j
                          /\ calls[i].body.kind = "current server is now"
                          /\ calls[i].body.server = data.rest
                          /\ calls[j].body.kind = "main menu"
              ELSE /\ servers'.current = servers.current
                   /\ \E i \in 1..Len(calls) :
                          /\ calls[i].method = "send_message"
                          /\ calls[i].body.kind \notin StartKinds]_vars

\* What the code does with a text that is no key: the current alias stays
\* and the chat is sent the main menu and nothing else
UnknownAliasUnanswered ==
    [][AliasGiven(lastMsg') =>
          LET data == lastMsg'.text.value
              calls == lastMsg'.calls
          IN  IF HasKey(servers.map, data)
              THEN /\ servers'.current = data.rest
                   /\ \E i, j \in 1..Len(calls) :
                          /\ i < j
                          /\ calls[i].body.kind = "current server is now"
                          /\ calls[i].body.server = data.rest
                          /\ calls[j].body.kind = "main menu"
              ELSE /\ servers'.current = servers.current
                   /\ \A i \in 1..Len(calls) :
                          calls[i].body.kind \in StartKinds
                   /\ lastMsg'.after = "Dialogue"]_vars

-----------------------------------------------------------------------------
(* The two dialogues of the admin menu, under AdminSpec *)

\* A chat in State::DeleteUser gave a text that is no account of the
\* allow-list as it stands in state `list`, the bot API delivering
AbsentHandleGiven(msg, list) ==
    /\ msg.before = "DeleteUser"
    /\ msg.text.some
    /\ ~Contains(list, msg.text.value)
    /\ ~msg.failed

\* C24: in State::DeleteUser a text that is no account of the allow-list
\* is ignored: the allow-list and the file are unchanged, no confirmation
\* and no error message is sent, and the chat is still in
\* State::DeleteUser after the message.
C24_AbsentHandle ==
    [][AbsentHandleGiven(lastMsg', allowed_list)
          => /\ allowed_list' = allowed_list
             /\ accounts' = accounts
             /\ \A i \in 1..Len(lastMsg'.calls) :
                    lastMsg'.calls[i].body.kind \in StartKinds
             /\ lastMsg'.after = "DeleteUser"
             /\ dialogue'[lastMsg'.chat] = "DeleteUser"]_vars

\* What the code does: the lists are unchanged and nothing is said of the
\* text, but the dialogue is left for the main menu
AbsentHandleLeavesDialogue ==
    [][AbsentHandleGiven(lastMsg', allowed_list)
          => /\ allowed_list' = allowed_list
             /\ accounts' = accounts
             /\ \A i \in 1..Len(lastMsg'.calls) :
                    lastMsg'.calls[i].body.kind \in StartKinds
             /\ Sent(lastMsg', "main menu")
             /\ lastMsg'.after = "Dialogue"]_vars

\* A chat in State::AddUser gave the empty text
EmptyNameGiven(msg) ==
    /\ msg.before = "AddUser"
    /\ msg.text = Some(Txt(""))

\* C25: in State::AddUser the empty text is rejected and the name asked
\* for again: the allow-list and the file are unchanged, the chat stays in
\* State::AddUser, and (the bot API delivering) the one message sent says
\* that no name was entered.
C25_EmptyName ==
    [][EmptyNameGiven(lastMsg')
          => /\ allowed_list' = allowed_list
             /\ accounts' = accounts
             /\ lastMsg'.after = "AddUser"
             /\ dialogue'[lastMsg'.chat] = "AddUser"
             /\ ~lastMsg'.failed
                   => /\ Len(lastMsg'.calls) = 1
                      /\ lastMsg'.calls[1].method = "send_message"
                      /\ lastMsg'.calls[1].body.kind = "no name entered"]_vars

\* The empty text was given after bob had been added: the two accounts
\* are in the allow-list and in the file as before.
C25_Witness ==
    /\ EmptyNameGiven(lastMsg)
    /\ Sent(lastMsg, "no name entered")
    /\ dialogue[lastMsg.chat] = "AddUser"
    /\ allowed_list = <<Alice, Bob>>
    /\ accounts = File(<<Alice, Bob>>)

-----------------------------------------------------------------------------
(* The mutexes, under Spec *)

\* The mutexes of the servers and of the allow-list
ListMutexes == {"servers", "allowed_list"}

\* C26: no handler holds the mutex of the servers or of the allow-list
\* while it makes a network call, be it a call of the bot API or a request
\* to the remote: the guard is dropped before the call starts.
C26_NoLockAcrossCall ==
    /\ \A i \in 1..Len(lastMsg.calls) :
           lastMsg.calls[i].held \cap ListMutexes = {}
    /\ \A i \in 1..Len(lastMsg.requests) :
           lastMsg.requests[i].held \cap ListMutexes = {}

\* What the code does: the requests to the remote are made with no mutex
\* held; the calls of the bot API made under one of the two mutexes are
\* those of callback_switch (the confirmation and all of handle_start,
\* under the mutex of the servers) and the keyboard of handle_delete_user
\* (under the mutex of the allow-list).
CallsUnderLock ==
    /\ \A i \in 1..Len(lastMsg.requests) : lastMsg.requests[i].held = {}
    /\ \A i \in 1..Len(lastMsg.calls) :
           LET call == lastMsg.calls[i] IN
           /\ "servers" \in call.held => lastMsg.before = "Switch"
           /\ lastMsg.before = "Switch" /\ lastMsg.text.some
                 => "servers" \in call.held
           /\ "allowed_list" \in call.held
                 <=> call.body.kind = "choose the account"

-----------------------------------------------------------------------------
(* The file of the accounts, under AdminSpec *)

\* The file holds the accounts of the allow-list, each once
Follows(file, list) ==
    /\ file.ok
    /\ \A i \in 1..Len(file.list) :
           Count(file.list, file.list[i]) = 1 /\ Count(list, file.list[i]) = 1
    /\ \A i \in 1..Len(list) :
           Count(file.list, list[i]) = 1 /\ Count(list, list[i]) = 1

\* An add-user or delete-user operation went to its end: its confirmation
\* was sent
Completed(msg) ==
    \/ msg.before = "AddUser" /\ Sent(msg, "user added")
    \/ msg.before = "DeleteUser" /\ Sent(msg, "user deleted")

\* The change of the accounts that the operation asks for
ChangeOf(msg) ==
    [push |-> msg.before = "AddUser", account |-> Txt(msg.text.value.rest)]

\* C27: the file follows the allow-list. Starting from a file that holds
\* the accounts of the allow-list, each once, every add-user or
\* delete-user operation that goes to its end leaves a file that holds the
\* accounts of the allow-list, each once; and the confirmation of the
\* operation is sent only when the file has been written.
C27_FileFollows ==
    [][Follows(accounts, allowed_list) /\ Completed(lastMsg')
          => /\ Follows(accounts', allowed_list')
             /\ accounts'.ok
             /\ lastMsg'.before = "AddUser"
                   => Contains(accounts'.list, ChangeOf(lastMsg').account)
             /\ lastMsg'.before = "DeleteUser"
                   => ~Contains(accounts'.list, ChangeOf(lastMsg').account)]_vars

\* What the code does: an operation that goes to its end has written the
\* file before its confirmation, with the account appended (whether the
\* file held it or not) or removed.
FileAppendsEachAdd ==
    [][Completed(lastMsg')
          => /\ accounts.ok
             /\ accounts' = File(Changed(accounts.list, ChangeOf(lastMsg')))]_vars

-----------------------------------------------------------------------------
(* The date bounds of a listing, under DateSpec *)

\* The date `days` days before a date of the months
DaysBack(date, days) ==
    LET d == CHOOSE d \in 0..(DaysBefore(Len(Months) + 1) - 1) :
                 Format(24 * d) = date
    IN  Format(24 * (d - days))

\* The query of the listing is built: both bounds are read
BoundsRead == dates.pc = "query"

\* C28: the clock being read anew for each bound and advancing between the
\* reads, over a midnight or an end of month of Moscow too: for Week the
\* from-bound is the to-bound's day minus 6; for ThisMonth the from-bound
\* is day 1 of the month of the to-bound; and in both cases from <= to.
C28_DateBounds ==
    BoundsRead =>
        /\ dates.date = "Week"
              => dates.date_from = DaysBack(dates.openDateTo, WeekBack)
        /\ dates.date = "ThisMonth"
              => dates.date_from = [dates.openDateTo EXCEPT !.day = 1]
        /\ dates.date \in {"Week", "ThisMonth"}
              => DateLeq(dates.date_from, dates.openDateTo)

\* What the code does: from <= to whatever the clock does, and the bounds
\* are those of the claim when no midnight of Moscow falls between the
\* first read and the last
BoundsOfOneDay ==
    BoundsRead =>
        /\ DateLeq(dates.date_from, dates.openDateTo)
        /\ moscow_time(dates.at)[1] = moscow_time(utc)[1]
              => /\ dates.date = "Week"
                    => dates.date_from = DaysBack(dates.openDateTo, WeekBack)
                 /\ dates.date = "ThisMonth"
                    => dates.date_from = [dates.openDateTo EXCEPT !.day = 1]
                 /\ dates.date = "Custom"
                    => dates.date_from
                         = DaysBack(dates.openDateTo, dates.offset)

\* The day of the month was read on January 31 and the clock passed the
\* midnight before moscow_last_ read it: the month of February is asked
\* for from January 2.
MonthFromTheSecond ==
    /\ BoundsRead
    /\ dates.date = "ThisMonth"
    /\ dates.day = 31
    /\ dates.date_from = [year |-> 2025, month |-> 1, day |-> 2]
    /\ dates.openDateTo = [year |-> 2025, month |-> 2, day |-> 1]

-----------------------------------------------------------------------------
(* The table of no rows, under OlapSpec *)

\* display_olap was called with no elements
EmptyDisplayed == olapOut.op = "display_olap" /\ olapData = <<>>

\* A table without a data line: its fences, its borders and its header
OnlyBordersAndHeader(table) ==
    /\ ~table.panicked
    /\ \E i \in 1..Len(table.lines) : table.lines[i].kind = "header"
    /\ \A i \in 1..Len(table.lines) :
           table.lines[i].kind \in {"fence", "border", "header"}

\* C29: display_olap called with no rows gives its caller a "nothing
\* found" outcome and never a table that is only borders and the header.
C29_EmptyTable ==
    EmptyDisplayed => ~OnlyBordersAndHeader(olapOut.table)

\* What the code does: the header between its borders, the closing border
\* right after, in the widths of the headers
HeaderOfNoRows ==
    EmptyDisplayed =>
        LET widths == <<Len(Headers[1]), Len(Headers[2]), Len(Headers[3])>> IN
        olapOut.table
          = [lines |-> <<Fence, DrawBorder(widths), HeaderLine(widths),
                         DrawBorder(widths), DrawBorder(widths), Fence>>,
             panicked |-> FALSE]

-----------------------------------------------------------------------------
(* The order of the mutexes, under LockSpec *)

\* The mutexes that the handler of a chat holds in the current state
Owned(chat) == {mutex \in Mutexes : owner[mutex] = chat}

\* The handler of a chat is at a lock() of a mutex
AtLock(chat, mutex) ==
    /\ tasks[chat] # <<>>
    /\ Head(tasks[chat]) = [op |-> "lock", mutexes |-> {mutex}]

\* The servers and the OLAP store come before the allow-list
MutexRank(mutex) == IF mutex = "allowed_list" THEN 2 ELSE 1

\* Some handlers wait each for a mutex that another of them (or itself)
\* holds
Deadlocked ==
    \E waiting \in SUBSET Chats \ {{}} :
        \A chat \in waiting :
            \E mutex \in Mutexes :
                AtLock(chat, mutex) /\ owner[mutex] \in waiting

\* C30: no deadlock. In every interleaving of the handlers of different
\* chats a handler takes a mutex only when the mutexes it holds come
\* before it in one order (the servers or the OLAP store before the
\* allow-list, never the reverse, and no mutex it holds already), so that
\* in no reachable state a set of handlers wait each for a mutex held by
\* another of them.
C30_NoDeadlock ==
    /\ \A chat \in Chats, mutex \in Mutexes :
           AtLock(chat, mutex)
               => \A held \in Owned(chat) : MutexRank(held) < MutexRank(mutex)
    /\ ~Deadlocked

\* The handler of chat 1 holds the servers in callback_switch and waits in
\* handle_start for the allow-list, which the handler of chat 2 holds in
\* handle_delete_user.
C30_Witness ==
    /\ lastMsg.chat = 2
    /\ lastMsg.text = Some(Label.delete_user)
    /\ owner["servers"] = 1
    /\ owner["allowed_list"] = 2
    /\ AtLock(1, "allowed_list")

-----------------------------------------------------------------------------
(* The session of a report handler, under ReportSpec *)

\* The i-th request of the handler was an authentication that the remote
\* answered with a token
TokenObtained(msg, i) ==
    /\ msg.requests[i].request.endpoint = "auth"
    /\ msg.requests[i].request.outcome = "ok"

\* A logout request with the key of the token obtained by the i-th request
\* was sent after it
LogoutSentFor(msg, i) ==
    \E j \in (i + 1)..Len(msg.requests) :
        LET request == msg.requests[j].request
        IN  /\ request.endpoint = "logout"
            /\ request.key.id.kind = "token"
            /\ request.key.creation_time = msg.requests[i].request.at

\* C31: every token obtained by a report handler is released before the
\* handler ends: on every path of handle_today, handle_yesterday,
\* handle_week, handle_month and handle_olap on which the authentication
\* succeeded, the paths where the report request or its parsing fails
\* included, a logout request for that token is sent.
C31_NoLeakedSession ==
    IsReportCommand(lastMsg)
        => \A i \in 1..Len(lastMsg.requests) :
               TokenObtained(lastMsg, i) => LogoutSentFor(lastMsg, i)

\* The handler obtained a token, its report request came back as an Err,
\* and the handler ended with no logout request sent
SessionLeaked ==
    /\ IsReportCommand(lastMsg)
    /\ \E i \in 1..Len(lastMsg.requests) : TokenObtained(lastMsg, i)
    /\ RemoteCallErr(lastMsg)
    /\ ~Requested(lastMsg, "logout")

\* What the code does: the logout request is sent for the token when the
\* report request that follows the authentication is answered well
LogoutAfterReportServed ==
    IsReportCommand(lastMsg)
        => \A i \in 1..Len(lastMsg.requests) :
               /\ TokenObtained(lastMsg, i)
               /\ \E j \in (i + 1)..Len(lastMsg.requests) :
                      /\ lastMsg.requests[j].request.endpoint
                             \in {"list", "olap"}
                      /\ lastMsg.requests[j].request.outcome = "ok"
               => LogoutSentFor(lastMsg, i)

-----------------------------------------------------------------------------
(* The handles that the add-user flow inserts, under AdminSpec *)

\* A handle as the allow-list is to hold it: not empty, no leading "@"
ProperHandle(handle) == handle.at = 0 /\ handle.rest # ""

ProperHandles(list) == \A i \in 1..Len(list) : ProperHandle(list[i])

\* C32: the add-user flow never inserts an empty handle or a handle that
\* starts with "@" into the allow-list or into the accounts of the file,
\* whatever the text given, "@" and "@@name" included.
C32_ProperHandles ==
    /\ ProperHandles(allowed_list)
    /\ accounts.ok => ProperHandles(accounts.list)

\* The text "@" was given in State::AddUser: the empty handle is in the
\* allow-list and in the file
EmptyHandleAdded ==
    /\ lastMsg.before = "AddUser"
    /\ lastMsg.text = Some(Text(1, ""))
    /\ Contains(allowed_list, Txt(""))
    /\ accounts.ok /\ Contains(accounts.list, Txt(""))

\* The text "@@bob" was given in State::AddUser: the handle "@bob" is in
\* the allow-list and in the file
MarkedHandleAdded ==
    /\ lastMsg.before = "AddUser"
    /\ lastMsg.text = Some(Text(2, "bob"))
    /\ Contains(allowed_list, Text(1, "bob"))
    /\ accounts.ok /\ Contains(accounts.list, Text(1, "bob"))

\* What the code does: what is inserted is the text without its first "@",
\* and nothing else is
OneMarkerStripped ==
    [][lastMsg'.before = "AddUser" /\ lastMsg'.text.some
          => LET stripped == StripPrefix(lastMsg'.text.value)
                 Kept(before, after) ==
                     \A i \in 1..Len(after) :
                         Contains(before, after[i]) \/ after[i] = stripped
             IN  /\ Kept(allowed_list, allowed_list')
                 /\ accounts.ok /\ accounts'.ok
                        => Kept(accounts.list, accounts'.list)]_vars

-----------------------------------------------------------------------------
(* The senders that change the allow-list, under Spec *)

\* The message was sent by a handle of the admin-list
FromAdmin(msg) == msg.username.some /\ IsAdmin(msg.username.value)

\* C33: every change of the allow-list (an account added or deleted) is made
\* by the handler of a message whose sender is in the admin-list, also when
\* a chat in State::Admin, State::AddUser or State::DeleteUser gets its
\* next message from another sender, who is no admin.
C33_AdminMutates ==
    [][allowed_list' # allowed_list \/ accounts' # accounts
          => FromAdmin(lastMsg')]_vars

\* An admin opened the dialogue to add a user and the name came from alice,
\* who is no admin: bob is in the allow-list
AddedByNonAdmin ==
    /\ lastMsg.before = "AddUser"
    /\ lastMsg.username = Some(Alice) /\ ~IsAdmin(Alice)
    /\ lastMsg.text = Some(Bob)
    /\ Contains(allowed_list, Bob)

\* An admin opened the dialogue to delete a user and alice, who is no
\* admin, named bob: bob is no longer in the allow-list
DeletedByNonAdmin ==
    /\ lastMsg.before = "DeleteUser"
    /\ lastMsg.username = Some(Alice) /\ ~IsAdmin(Alice)
    /\ lastMsg.text = Some(Bob)
    /\ Sent(lastMsg, "user deleted")
    /\ ~Contains(allowed_list, Bob)

\* What the code does: the admin-list is consulted when "Admin" is chosen
\* in State::Dialogue and nowhere else, so a chat comes to State::Admin by
\* the message of an admin only, and the allow-list changes only in a chat
\* that an admin brought there
AdminOpensTheMenu ==
    [][/\ \A chat \in Chats :
              dialogue'[chat] = "Admin" /\ dialogue[chat] # "Admin"
                  => FromAdmin(lastMsg')
       /\ allowed_list' # allowed_list \/ accounts' # accounts
              => lastMsg'.before \in {"AddUser", "DeleteUser"}]_vars

-----------------------------------------------------------------------------
(* The write-back of the allow-list, under FileSpec *)

\* No handler is between its message and its end
AllFinished == \A chat \in Chats : tasks[chat] = <<>>

\* The file holds the handles of the allow-list and no other
SameHandles(file, list) ==
    /\ file.ok
    /\ \A i \in 1..Len(list) : Contains(file.list, list[i])
    /\ \A i \in 1..Len(file.list) : Contains(list, file.list[i])

\* C34: no lost update. The allow-list is changed under its mutex and the
\* file is read, changed and written outside it; when the handlers of two
\* chats add or delete accounts at the same time, the accounts in the file
\* after both have finished are those of both operations: the handles of
\* the allow-list.
C34_NoLostUpdate == AllFinished => SameHandles(accounts, allowed_list)

\* Both handlers have finished and have written the file; bob, added by
\* one of them, is in the allow-list and not in the file
AddLost ==
    /\ AllFinished
    /\ accounts.ok
    /\ Contains(allowed_list, Bob)
    /\ ~Contains(accounts.list, Bob)

\* Both handlers have finished and have written the file; alice, deleted
\* by one of them, is in the file and not in the allow-list
DeleteLost ==
    /\ AllFinished
    /\ accounts.ok
    /\ ~Contains(allowed_list, Alice)
    /\ Contains(accounts.list, Alice)

\* A handler reads the file that the other has created and not yet written
ReadOfEmptyFile ==
    \E chat \in Chats :
        /\ tasks[chat] # <<>>
        /\ Head(tasks[chat]).op = "read"
        /\ ~accounts.ok

\* What the code does (under AdminSpec, the handlers one after the
\* other): an operation that goes to its end on a file with the handles of
\* the allow-list leaves the handles of the allow-list in the file
SerialWriteBack ==
    [][Completed(lastMsg') /\ SameHandles(accounts, allowed_list)
          => SameHandles(accounts', allowed_list')]_vars

-----------------------------------------------------------------------------
(* The server of a report, under LabelSpec *)

\* The messages of the report handlers that name a server
LabelledKinds ==
    {"current shift", "previous shift", "sum of the last 7 days",
     "sum of the month", "olap mode"}

\* C35: a report is labelled with the server it was fetched from. The
\* alias shown in the message of a report and the base URL of its requests
\* are read from the servers under one guard, so that, whatever the other
\* chats switch while the handler runs, every request of the handler went
\* to the URL that the map gives for the alias shown.
C35_LabelledWithSource ==
    IsReportCommand(lastMsg)
        => \A i \in 1..Len(lastMsg.calls) :
               lastMsg.calls[i].body.kind \in LabelledKinds
                   => /\ lastMsg.requests # <<>>
                      /\ \A j \in 1..Len(lastMsg.requests) :
                             lastMsg.requests[j].url
                                 = ServerMap[lastMsg.calls[i].body.server]

\* The week's sum was asked for in chat 1 while "main" was current, chat 2
\* switched to "second" before the requests were sent, and the sum was
\* sent as that of "main", fetched from the URL of "main".
C35_Witness ==
    /\ lastMsg.chat = 1
    /\ lastMsg.text = Some(Label.week)
    /\ servers.current = "second"
    /\ \E i \in 1..Len(lastMsg.calls) :
           /\ lastMsg.calls[i].body.kind = "sum of the last 7 days"
           /\ lastMsg.calls[i].body.server = "main"
    /\ Requested(lastMsg, "list")
    /\ \A j \in 1..Len(lastMsg.requests) :
           lastMsg.requests[j].url = ServerMap["main"]

-----------------------------------------------------------------------------
(* The lines of a row, under OlapSpec *)

\* The lines of a table between the border under its header and its last
\* border
Body(table) == SubSeq(table.lines, 5, Len(table.lines) - 2)

\* Where the lines of the k-th row begin: after the (k-1)-th border within
\* the body
RowStart(body, k) ==
    LET borders == {i \in 1..Len(body) : body[i].kind = "border"} IN
    IF k = 1 THEN 1
    ELSE 1 + CHOOSE i \in borders :
                 Cardinality({j \in borders : j < i}) = k - 2

\* The k-th of the rows kept has a line in the table, and its first line
\* carries the sum and the guest count of the row
Visible(table, kept, k) ==
    LET body == Body(table)
        first == RowStart(body, k)
    IN  /\ first <= Len(body)
        /\ body[first].kind = "data"
        /\ body[first].fields = <<to_string(kept[k].DishDiscountSumInt),
                                  to_string(kept[k].GuestNum)>>

\* C36: every displayed row is visible. For each of the rows that
\* display_olap keeps, the table has at least one line, and the first line
\* of the row carries its sum and its guest count, also when the name of
\* the dish is empty or has no word (wrap_text returns no line then).
C36_RowsVisible ==
    (olapOut.op = "display_olap" /\ ~olapOut.table.panicked)
        => \A k \in 1..Len(Displayed(Elements)) :
               Visible(olapOut.table, Displayed(Elements), k)

\* A table was returned for one row with an empty name: it has no data line
RowWithoutLine ==
    /\ olapOut.op = "display_olap" /\ ~olapOut.table.panicked
    /\ Len(Elements) = 1
    /\ Elements[1].DishName = <<>>
    /\ \A i \in 1..Len(olapOut.table.lines) :
           olapOut.table.lines[i].kind # "data"

\* What the code does: the rows whose names have a word are visible when
\* every row kept has one
RowsWithAWordVisible ==
    (/\ olapOut.op = "display_olap" /\ ~olapOut.table.panicked
     /\ \A k \in 1..Len(Displayed(Elements)) :
            SplitWhitespace(Displayed(Elements)[k].DishName) # <<>>)
        => \A k \in 1..Len(Displayed(Elements)) :
               Visible(olapOut.table, Displayed(Elements), k)

\* What wrap_text does (under WrapSpec): a text without a word, empty or of
\* spaces only, gives no line
NoWordNoLine ==
    (wrapOut.called /\ SplitWhitespace(wrapIn.text) = <<>>)
        => wrapOut.lines = <<>>

\* wrap_text was called on a text of spaces only
SpacesWrapped ==
    /\ wrapOut.called
    /\ wrapIn.text # <<>>
    /\ \A i \in 1..Len(wrapIn.text) : wrapIn.text[i] = " "

=============================================================================
